---- MODULE Spec2Model ----
(***************************************************************************)
(* Verification model of the Secuflow STC / MC-STC computation engine.     *)
(*                                                                         *)
(* Components modelled:                                                    *)
(*   - the congruence scorer (ratio STC, inter-class MC-STC, 2C-STC)       *)
(*   - the coordination matrix builder (CR from assignment/dependency,     *)
(*     CA = assignment . assignment^T)                                     *)
(*   - the spanning-tree centrality engine (exact Matrix-Tree estimator    *)
(*     and the Monte Carlo estimator with randomized Kruskal sampling)     *)
(*                                                                         *)
(* Floating point values are modelled as exact rationals <<num, den>>      *)
(* with den > 0; a matrix is a function over index pairs, indices from 0   *)
(* as in numpy.                                                            *)
(***************************************************************************)
EXTENDS Integers, Sequences, FiniteSets, TLC

VARIABLES
    \* ---- congruence scorer -------------------------------------------
    pcScore,            \* "ready" | "stc" | "mc_stc" | "2c_stc" | "ValueError"
    cr_matrix,          \* Coordination Requirements handed to the scorer
    ca_matrix,          \* Coordination Actuals handed to the scorer
    class_assignments,  \* user index -> functional class (<<>> before use)
    stc,                \* result of the last score, <<>> when none
    mc_cr,              \* filtered CR returned by the inter-class entry points
    mc_ca,              \* filtered CA returned by the inter-class entry points
    \* ---- coordination matrix builder ---------------------------------
    pcBuild,            \* "ready" | "cr" | "ca" | "ValueError"
    assignment_matrix,  \* users x files contribution counts
    dependency_matrix,  \* files x files technical dependency
    threshold,          \* binarisation threshold of the builder
    built,              \* matrix returned by the last builder call, <<>> when none
    \* ---- spanning-tree centrality engine -----------------------------
    adjacency_matrix,   \* the graph handed to both estimators (their cr_matrix)
    pcExact,            \* "ready" | "done" | "zero" | "ValueError"
    kirchhoff_matrix,   \* Laplacian computed by the exact estimator
    total_trees,        \* (0,0) cofactor of the Laplacian
    stc_values,         \* exact centrality, node -> rational, <<>> when none
    pcMC,               \* "ready" | "sampling" | "done" | "ValueError"
    iterations,         \* MCSTCService.iterations
    iteration,          \* samples taken so far
    tree_matrix,        \* the spanning tree of the last sample, <<>> when none
    cumulative_importance,  \* node -> rational, running sum over the samples
    mc_stc_values,      \* Monte Carlo centrality, node -> rational, <<>> when none
    \* ---- two Monte Carlo estimators on one input -----------------------
    twin_cr,            \* the graph handed to both estimators
    twin_iterations,    \* the iteration count both are constructed with
    twin_pc,            \* estimator -> "new" | "ready" | "done" | "ValueError"
    twin_entropy,       \* estimator -> what RandomState() was seeded with
    random_state,       \* estimator -> current state of self.random_state
    twin_values,        \* estimator -> returned centrality map, <<>> when none
    \* ---- coordination pair ranker --------------------------------------
    pcRank,             \* "ready" | "done"
    all_users,          \* contributor ids in matrix order
    rank_cr,            \* cr_matrix handed to the ranker (rational entries)
    rank_ca,            \* ca_matrix handed to the ranker (rational entries)
    role_mapping,       \* contributor id -> role, for the contributors that have one
    pairs,              \* list returned by _generate_coordination_pairs
    top_coordination_pairs,  \* analysis.top_coordination_pairs
    pair_thread,        \* "none" | "started": the thread writing the pair rows
    \* ---- matrix aligner -------------------------------------------------
    pcAlign,            \* "ready" | "aligned" | "ValueError"
    align_assignment,   \* assignment matrix handed to the aligner (users x files)
    align_dependency,   \* dependency matrix handed to the aligner
    aligned,            \* <<assignment, dependency>> returned, <<>> when none
    align_error,        \* what the ValueError message names, <<>> when none
    \* ---- TNM matrix loader (MC-STC) -------------------------------------
    pcConvert,          \* "ready" | "done" | "ValueError"
    matrix_data,        \* the parsed JSON value handed to the loader
    dense_matrix,       \* the array returned, <<>> when none
    convert_error,      \* which ValueError was raised, "" when none
    \* ---- sparse matrix loading of the STC run ---------------------------
    pcLoad,             \* "ready" | "loaded" | "STC_ANALYSIS_ERROR"
    assignment_data,    \* AssignmentMatrix.json: user -> file -> count
    dependency_data,    \* FileDependencyMatrix.json: file -> file -> value
    loaded,             \* <<assignment_matrix, dependency_matrix>>, <<>> when none
    \* ---- create and update requests on analyses -------------------------
    stored_iterations,  \* <<kind, id>> -> monte_carlo_iterations of the stored row
    create_response,    \* status of the last create/update request, "none" at first
    \* ---- STC start_analysis view ----------------------------------------
    stc_analyses,       \* analysis id -> stored STCAnalysis row
    stc_tnm_output,     \* what the last request found in the TNM output directory
    stc_response,       \* [status, error_code, data] of the last request
    \* ---- MC-STC start_analysis run --------------------------------------
    mc_analysis,        \* the stored MCSTCAnalysis row
    analysis,           \* the run's in-memory analysis object, <<>> when none
    pcRun,              \* "idle" | "saving": the run before its analysis.save()
    run_count,          \* start_analysis requests served so far
    run_roles,          \* role_mapping of the last run
    computed_pairs,     \* coordination_pairs of start_analysis
    pair_table,         \* the MCSTCCoordinationPair rows of the analysis
    pair_queue,         \* pairs_data the writer thread has still to insert
    mc_response,        \* what the last start_analysis request was answered
    results_seen,       \* what the last results query was answered, <<>> when none
    \* ---- monitoring analyses --------------------------------------------
    monitoring,         \* the ProjectMonitoring rows of one project, oldest first
    monitor_requests,   \* request -> [analysis_type, force_rerun, pc]
    \* ---- asynchronous TNM contributor analysis --------------------------
    tasks,              \* AsyncTaskManager._tasks: task id -> task
    workers             \* task id -> position of its worker thread

scoreVars == <<pcScore, cr_matrix, ca_matrix, class_assignments, stc, mc_cr, mc_ca>>
buildVars == <<pcBuild, assignment_matrix, dependency_matrix, threshold, built>>
exactVars == <<pcExact, kirchhoff_matrix, total_trees, stc_values>>
mcVars == <<pcMC, iterations, iteration, tree_matrix, cumulative_importance,
            mc_stc_values>>
centralityVars == <<adjacency_matrix, exactVars, mcVars>>
twinVars == <<twin_cr, twin_iterations, twin_pc, twin_entropy, random_state,
              twin_values>>
rankVars == <<pcRank, all_users, rank_cr, rank_ca, role_mapping, pairs,
              top_coordination_pairs, pair_thread>>
alignVars == <<pcAlign, align_assignment, align_dependency, aligned, align_error>>
convertVars == <<pcConvert, matrix_data, dense_matrix, convert_error>>
loadVars == <<pcLoad, assignment_data, dependency_data, loaded>>
createVars == <<stored_iterations, create_response>>
stcVars == <<stc_analyses, stc_tnm_output, stc_response>>
runVars == <<mc_analysis, analysis, pcRun, run_count, run_roles,
             computed_pairs, pair_table, pair_queue, mc_response,
             results_seen>>
monitorVars == <<monitoring, monitor_requests>>
taskVars == <<tasks, workers>>
engineVars == <<scoreVars, buildVars, centralityVars, twinVars, rankVars,
                alignVars, convertVars, loadVars>>
serviceVars == <<createVars, stcVars, runVars, monitorVars, taskVars>>
vars == <<engineVars, serviceVars>>

\* what each component's actions leave alone
outsideScore ==
    <<buildVars, centralityVars, twinVars, rankVars, alignVars, convertVars,
      loadVars,
      serviceVars>>
outsideBuild ==
    <<scoreVars, centralityVars, twinVars, rankVars, alignVars, convertVars,
      loadVars,
      serviceVars>>
outsideCentrality ==
    <<scoreVars, buildVars, twinVars, rankVars, alignVars, convertVars,
      loadVars,
      serviceVars>>
outsideTwin ==
    <<scoreVars, buildVars, centralityVars, rankVars, alignVars, convertVars,
      loadVars,
      serviceVars>>
outsideRank ==
    <<scoreVars, buildVars, centralityVars, twinVars, alignVars, convertVars,
      loadVars,
      serviceVars>>
outsideAlign ==
    <<scoreVars, buildVars, centralityVars, twinVars, rankVars, convertVars,
      loadVars,
      serviceVars>>
outsideConvert ==
    <<scoreVars, buildVars, centralityVars, twinVars, rankVars, alignVars,
      loadVars,
      serviceVars>>
outsideLoad ==
    <<scoreVars, buildVars, centralityVars, twinVars, rankVars, alignVars,
      convertVars,
      serviceVars>>
outsideCreate == <<engineVars, stcVars, runVars, monitorVars, taskVars>>
outsideStc == <<engineVars, createVars, runVars, monitorVars, taskVars>>
outsideRun == <<engineVars, createVars, stcVars, monitorVars, taskVars>>
outsideMonitor == <<engineVars, createVars, stcVars, runVars, taskVars>>
outsideTask == <<engineVars, createVars, stcVars, runVars, monitorVars>>


(***************************************************************************)
(* Bounds of the model.                                                    *)
(***************************************************************************)
NumUsers == 3        \* contributors (rows/columns of CR and CA)
MaxWeight == 1       \* largest matrix entry drawn for CR / CA
MaxPositive == 2     \* most positive cells drawn per scorer input matrix

(***************************************************************************)
(* Matrices and rationals.                                                 *)
(***************************************************************************)
Idx(n) == 0 .. (n - 1)
Cells(n) == Idx(n) \X Idx(n)

\* len(matrix): the number of rows of a square matrix given as a function
\* over Cells(n).
Dim(m) == CHOOSE n \in 0 .. (Cardinality(DOMAIN m)) : DOMAIN m = Cells(n)

Zeros(n) == [c \in Cells(n) |-> 0]

IsSymmetric(m) == \A c \in DOMAIN m : m[c] = m[c[2], c[1]]

ZeroDiagonal(m) == \A c \in DOMAIN m : c[1] = c[2] => m[c] = 0

\* Sparse r x c matrices: at most k positive cells, entries in 0..w.
SparseRect(r, c, w, k) ==
    UNION { { [x \in Idx(r) \X Idx(c) |-> IF x \in S THEN f[x] ELSE 0] :
                f \in [S -> 1 .. w] } :
            S \in { T \in SUBSET (Idx(r) \X Idx(c)) : Cardinality(T) <= k } }

SparseMatrices(n, w, k) == SparseRect(n, n, w, k)

\* shape of a (non-empty) matrix
Rows(m) == Cardinality({ x[1] : x \in DOMAIN m })
Cols(m) == Cardinality({ x[2] : x \in DOMAIN m })

\* sum of f[0] .. f[n-1]
RECURSIVE SumTo(_, _)
SumTo(f, n) == IF n = 0 THEN 0 ELSE f[n - 1] + SumTo(f, n - 1)

\* numpy matrix product a @ b (a.cols = b.rows)
MatMul(a, b) ==
    [x \in Idx(Rows(a)) \X Idx(Cols(b)) |->
        SumTo([k \in Idx(Cols(a)) |-> a[x[1], k] * b[k, x[2]]], Cols(a))]

\* numpy a.T for a rectangular matrix
MatT(a) == [x \in Idx(Cols(a)) \X Idx(Rows(a)) |-> a[x[2], x[1]]]

Rat(n, d) == <<n, d>>
RatEq(a, b) == a[1] * b[2] = b[1] * a[2]
RatLe(a, b) == a[1] * b[2] <= b[1] * a[2]
RatLt(a, b) == a[1] * b[2] < b[1] * a[2]
RatZero == Rat(0, 1)
RatOne == Rat(1, 1)

(***************************************************************************)
(* Congruence scorer (STCService.calculate_stc, filter_inter_class_edges,  *)
(* calculate_mc_stc, calculate_2c_stc).                                    *)
(***************************************************************************)
Classes == {"developer", "security", "ops"}

\* Off-diagonal cells where coordination is required.
RequiredEdges(cr) == { c \in DOMAIN cr : c[1] # c[2] /\ cr[c] > 0 }

\* Required cells where coordination actually happens.
SatisfiedEdges(cr, ca) == { c \in RequiredEdges(cr) : ca[c] > 0 }

\* calculate_stc with the numerator counting every actual edge, required or
\* not (the CR mask forgotten).
calculate_stc_NoRequiredMask(cr, ca) ==
    LET required_count == Cardinality(RequiredEdges(cr))
        actual_count == Cardinality({ c \in DOMAIN ca : c[1] # c[2] /\ ca[c] > 0 })
    IN  IF required_count > 0 THEN Rat(actual_count, required_count)
                              ELSE RatZero

\* calculate_stc with the numerator counting each satisfied pair once (i < j)
\* while the denominator counts both directions.
calculate_stc_HalfNumerator(cr, ca) ==
    LET required_count == Cardinality(RequiredEdges(cr))
        intersection_count ==
            Cardinality({ c \in SatisfiedEdges(cr, ca) : c[1] < c[2] })
    IN  IF required_count > 0 THEN Rat(intersection_count, required_count)
                              ELSE RatZero

\* calculate_stc scoring "nothing required" as vacuously satisfied.
calculate_stc_VacuousOne(cr, ca) ==
    LET required_count == Cardinality(RequiredEdges(cr))
        intersection_count == Cardinality(SatisfiedEdges(cr, ca))
    IN  IF required_count > 0 THEN Rat(intersection_count, required_count)
                              ELSE RatOne

\* STC = |CR and CA| / |CR| over off-diagonal cells, 0.0 when nothing is
\* required.  Only called on matrices of equal shape.
calculate_stc(cr, ca) ==
    LET required_count == Cardinality(RequiredEdges(cr))
        intersection_count == Cardinality(SatisfiedEdges(cr, ca))
    IN  IF required_count > 0 THEN Rat(intersection_count, required_count)
                              ELSE RatZero

\* filter_inter_class_edges with the class test inverted: intra-class cells
\* kept, inter-class cells removed.
filter_inter_class_edges_Inverted(matrix, assignments) ==
    [c \in DOMAIN matrix |->
        IF assignments[c[1]] # assignments[c[2]] THEN 0 ELSE matrix[c]]

\* Keep only the cells whose two contributors are in different classes.
filter_inter_class_edges(matrix, assignments) ==
    [c \in DOMAIN matrix |->
        IF assignments[c[1]] = assignments[c[2]] THEN 0 ELSE matrix[c]]

\* Inter-class STC: filter both matrices, then the same ratio.
calculate_mc_stc(cr, ca, assignments) ==
    calculate_stc(filter_inter_class_edges(cr, assignments),
                  filter_inter_class_edges(ca, assignments))

\* Class map used by the two-class entry point: members of security_users
\* are 'security', every other contributor is 'developer'.
TwoClassAssignments(n, security_users) ==
    [u \in Idx(n) |-> IF u \in security_users THEN "security" ELSE "developer"]

InitScore ==
    /\ pcScore = "ready"
    /\ cr_matrix \in SparseMatrices(NumUsers, MaxWeight, MaxPositive)
    /\ ca_matrix \in SparseMatrices(NumUsers, MaxWeight, MaxPositive)
                        \cup SparseMatrices(NumUsers - 1, MaxWeight, 1)
    /\ class_assignments = <<>>
    /\ stc = <<>>
    /\ mc_cr = <<>>
    /\ mc_ca = <<>>

IdleScore ==
    /\ pcScore = "idle"
    /\ cr_matrix = <<>>
    /\ ca_matrix = <<>>
    /\ class_assignments = <<>>
    /\ stc = <<>>
    /\ mc_cr = <<>>
    /\ mc_ca = <<>>

\* calculate_stc on matrices of different shape raises ValueError.
ScoreShapeError ==
    /\ pcScore = "ready"
    /\ DOMAIN cr_matrix # DOMAIN ca_matrix
    /\ pcScore' = "ValueError"
    /\ UNCHANGED <<cr_matrix, ca_matrix, class_assignments, stc, mc_cr, mc_ca>>
    /\ UNCHANGED outsideScore

CalculateStc ==
    /\ pcScore = "ready"
    /\ DOMAIN cr_matrix = DOMAIN ca_matrix
    /\ stc' = calculate_stc(cr_matrix, ca_matrix)
    /\ pcScore' = "stc"
    /\ UNCHANGED <<cr_matrix, ca_matrix, class_assignments, mc_cr, mc_ca>>
    /\ UNCHANGED outsideScore

CalculateMcStc ==
    /\ pcScore = "ready"
    /\ DOMAIN cr_matrix = DOMAIN ca_matrix
    /\ \E a \in [Idx(NumUsers) -> Classes] :
        /\ class_assignments' = a
        /\ mc_cr' = filter_inter_class_edges(cr_matrix, a)
        /\ mc_ca' = filter_inter_class_edges(ca_matrix, a)
        /\ stc' = calculate_mc_stc(cr_matrix, ca_matrix, a)
    /\ pcScore' = "mc_stc"
    /\ UNCHANGED <<cr_matrix, ca_matrix>>
    /\ UNCHANGED outsideScore

Calculate2cStc ==
    /\ pcScore = "ready"
    /\ DOMAIN cr_matrix = DOMAIN ca_matrix
    /\ \E security_users \in SUBSET Idx(NumUsers) :
        LET a == TwoClassAssignments(NumUsers, security_users) IN
        /\ class_assignments' = a
        /\ mc_cr' = filter_inter_class_edges(cr_matrix, a)
        /\ mc_ca' = filter_inter_class_edges(ca_matrix, a)
        /\ stc' = calculate_mc_stc(cr_matrix, ca_matrix, a)
    /\ pcScore' = "2c_stc"
    /\ UNCHANGED <<cr_matrix, ca_matrix>>
    /\ UNCHANGED outsideScore

NextScore ==
    \/ ScoreShapeError
    \/ CalculateStc
    \/ CalculateMcStc
    \/ Calculate2cStc

(***************************************************************************)
(* Coordination matrix builder.                                            *)
(***************************************************************************)
NumFiles == 2        \* files (columns of the assignment matrix)

\* np.where(m > t, 1, 0)
Binarize(m, t) == [x \in DOMAIN m |-> IF m[x] > t THEN 1 ELSE 0]

\* np.fill_diagonal(m, 0)
FillDiagonalZero(m) == [x \in DOMAIN m |-> IF x[1] = x[2] THEN 0 ELSE m[x]]

\* CR = assignment . dependency . assignment^T, binarised (value > threshold
\* when threshold > 0, value > 0 otherwise), diagonal zeroed.
calculate_cr_from_assignment_dependency(assignment, dependency, t) ==
    LET raw == MatMul(MatMul(assignment, dependency), MatT(assignment))
    IN  FillDiagonalZero(Binarize(raw, IF t > 0 THEN t ELSE 0))

\* CR = CA x CA^T of the centrality service; also the ca_matrix of the
\* MC-STC run (assignment_np @ assignment_np.T).
calculate_cr_matrix(ca) == MatMul(ca, MatT(ca))

InitBuild ==
    /\ pcBuild = "ready"
    /\ assignment_matrix \in SparseRect(NumUsers, NumFiles, MaxWeight, MaxPositive)
    /\ dependency_matrix \in SparseMatrices(NumFiles, MaxWeight, MaxPositive)
                                \cup SparseMatrices(NumFiles + 1, MaxWeight, 1)
    /\ threshold \in 0 .. MaxWeight
    /\ built = <<>>

IdleBuild ==
    /\ pcBuild = "idle"
    /\ assignment_matrix = <<>>
    /\ dependency_matrix = <<>>
    /\ threshold = 0
    /\ built = <<>>

\* assignment.cols != dependency.rows: the product cannot be formed.
BuildShapeError ==
    /\ pcBuild = "ready"
    /\ Cols(assignment_matrix) # Rows(dependency_matrix)
    /\ pcBuild' = "ValueError"
    /\ UNCHANGED <<assignment_matrix, dependency_matrix, threshold, built>>
    /\ UNCHANGED outsideBuild

BuildCR ==
    /\ pcBuild = "ready"
    /\ Cols(assignment_matrix) = Rows(dependency_matrix)
    /\ built' = calculate_cr_from_assignment_dependency(
                    assignment_matrix, dependency_matrix, threshold)
    /\ pcBuild' = "cr"
    /\ UNCHANGED <<assignment_matrix, dependency_matrix, threshold>>
    /\ UNCHANGED outsideBuild

BuildCA ==
    /\ pcBuild = "ready"
    /\ built' = calculate_cr_matrix(assignment_matrix)
    /\ pcBuild' = "ca"
    /\ UNCHANGED <<assignment_matrix, dependency_matrix, threshold>>
    /\ UNCHANGED outsideBuild

NextBuild ==
    \/ BuildShapeError
    \/ BuildCR
    \/ BuildCA

(***************************************************************************)
(* Spanning-tree centrality engine: exact estimator (STCService).          *)
(***************************************************************************)
MaxNodes == 4        \* largest graph handed to the estimators
MaxEdges == 4        \* most undirected edges of an input graph

\* unordered node pairs i < j
Pairs(n) == { c \in Cells(n) : c[1] < c[2] }

\* adjacency matrix of the undirected graph with edge weights f, plus the
\* diagonal entries g
GraphMatrix(n, f, g) ==
    [c \in Cells(n) |->
        IF c \in DOMAIN f THEN f[c]
        ELSE IF <<c[2], c[1]>> \in DOMAIN f THEN f[c[2], c[1]]
        ELSE IF c[1] = c[2] /\ c[1] \in DOMAIN g THEN g[c[1]]
        ELSE 0]

EdgeSets(n, k) == { S \in SUBSET Pairs(n) : Cardinality(S) <= k }

\* symmetric non-negative graphs on n nodes: at most k edges of weight 1..w,
\* at most one positive diagonal entry
SymGraphs(n, w, k) ==
    UNION { UNION { { GraphMatrix(n, f, g) : f \in [S -> 1 .. w] } :
                    S \in EdgeSets(n, k) } :
            g \in { <<>> } \cup { [d \in {u} |-> 1] : u \in Idx(n) } }

\* a single directed entry: not symmetric
AsymGraphs(n) ==
    { [c \in Cells(n) |-> IF c = e THEN 1 ELSE 0] : e \in Pairs(n) }

\* a single undirected edge of negative weight
NegGraphs(n) ==
    { GraphMatrix(n, [c \in {e} |-> 0 - 1], <<>>) : e \in Pairs(n) }

\* np.sum(adjacency_matrix, axis=1)[i]
RowSum(m, i) == SumTo([j \in Idx(Dim(m)) |-> m[i, j]], Dim(m))

\* L = D - A
calculate_kirchhoff_matrix(a) ==
    [c \in DOMAIN a |->
        (IF c[1] = c[2] THEN RowSum(a, c[1]) ELSE 0) - a[c]]

\* np.delete(np.delete(matrix, i, 0), j, 1)
DeleteRowCol(m, i, j) ==
    [c \in Cells(Dim(m) - 1) |->
        m[IF c[1] < i THEN c[1] ELSE c[1] + 1,
          IF c[2] < j THEN c[2] ELSE c[2] + 1]]

\* determinant, by expansion along row 0 (exact; the code's linalg.det
\* computes the same value in floating point)
RECURSIVE Det(_)
Det(m) ==
    LET n == Dim(m)
        sign(j) == IF j % 2 = 0 THEN 1 ELSE 0 - 1
    IN  IF n = 0 THEN 1
        ELSE SumTo([j \in Idx(n) |->
                      IF m[0, j] = 0 THEN 0
                      ELSE sign(j) * m[0, j] * Det(DeleteRowCol(m, 0, j))], n)

calculate_cofactor(m, i, j) == Det(DeleteRowCol(m, i, j))

\* calculate_spanning_tree_count taking the determinant of the whole
\* Laplacian, no row and column removed.
calculate_spanning_tree_count_FullDet(k) == Det(k)

calculate_spanning_tree_count(k) == calculate_cofactor(k, 0, 0)

\* calculate_edge_participation storing each edge's participation at [i,j]
\* only, the mirrored store at [j,i] forgotten.
calculate_edge_participation_UpperOnly(a, k) ==
    [c \in DOMAIN a |->
        IF c[1] < c[2] /\ a[c] > 0
        THEN a[c] * k[c[1], c[1]] * k[c[2], c[2]] - a[c] * k[c] * k[c[2], c[1]]
        ELSE 0]

\* P(e) = w * K[i,i] * K[j,j] - w * K[i,j] * K[j,i] for every edge i < j,
\* stored at both [i,j] and [j,i]
calculate_edge_participation(a, k) ==
    [c \in DOMAIN a |->
        LET i == IF c[1] < c[2] THEN c[1] ELSE c[2]
            j == IF c[1] < c[2] THEN c[2] ELSE c[1]
        IN  IF i # j /\ a[i, j] > 0
            THEN a[i, j] * k[i, i] * k[j, j] - a[i, j] * k[i, j] * k[j, i]
            ELSE 0]

\* greatest common divisor of two naturals
RECURSIVE Gcd(_, _)
Gcd(a, b) == IF b = 0 THEN a ELSE Gcd(b, a % b)

Abs(x) == IF x < 0 THEN 0 - x ELSE x

\* the rational n / d (d > 0) in lowest terms
Quot(n, d) ==
    LET g == Gcd(Abs(n), d) IN Rat(n \div g, d \div g)

RatAdd(a, b) == Quot(a[1] * b[2] + b[1] * a[2], a[2] * b[2])

\* stc_values[i] = sum(edge_participation[i, :]) / total_trees
NodeCentrality(a, k, trees) ==
    LET p == calculate_edge_participation(a, k)
    IN  [i \in Idx(Dim(a)) |-> Quot(RowSum(p, i), trees)]

InitExact ==
    /\ \E n \in 2 .. MaxNodes :
        adjacency_matrix \in SymGraphs(n, MaxWeight, MaxEdges)
                                \cup AsymGraphs(n) \cup NegGraphs(n)
    /\ pcExact = "ready"
    /\ kirchhoff_matrix = <<>>
    /\ total_trees = 0
    /\ stc_values = <<>>
    /\ pcMC = "idle"
    /\ iterations = 0
    /\ iteration = 0
    /\ tree_matrix = <<>>
    /\ cumulative_importance = <<>>
    /\ mc_stc_values = <<>>

IdleCentrality ==
    /\ adjacency_matrix = <<>>
    /\ pcExact = "idle"
    /\ kirchhoff_matrix = <<>>
    /\ total_trees = 0
    /\ stc_values = <<>>
    /\ pcMC = "idle"
    /\ iterations = 0
    /\ iteration = 0
    /\ tree_matrix = <<>>
    /\ cumulative_importance = <<>>
    /\ mc_stc_values = <<>>

HasNegative(m) == \E c \in DOMAIN m : m[c] < 0

\* calculate_stc_from_cr: "CR matrix must be symmetric"
StcFromCr_NotSymmetric ==
    /\ pcExact = "ready"
    /\ ~IsSymmetric(adjacency_matrix)
    /\ pcExact' = "ValueError"
    /\ UNCHANGED <<adjacency_matrix, kirchhoff_matrix, total_trees, stc_values>>
    /\ UNCHANGED <<mcVars, outsideCentrality>>

\* calculate_stc_from_cr: "CR matrix must contain non-negative values"
StcFromCr_Negative ==
    /\ pcExact = "ready"
    /\ IsSymmetric(adjacency_matrix)
    /\ HasNegative(adjacency_matrix)
    /\ pcExact' = "ValueError"
    /\ UNCHANGED <<adjacency_matrix, kirchhoff_matrix, total_trees, stc_values>>
    /\ UNCHANGED <<mcVars, outsideCentrality>>

\* calculate_stc_from_cr, total_trees <= 0: zero STC for all nodes
StcFromCr_NoTrees ==
    /\ pcExact = "ready"
    /\ IsSymmetric(adjacency_matrix)
    /\ ~HasNegative(adjacency_matrix)
    /\ LET k == calculate_kirchhoff_matrix(adjacency_matrix)
           trees == calculate_spanning_tree_count(k)
       IN  /\ trees <= 0
           /\ kirchhoff_matrix' = k
           /\ total_trees' = trees
           /\ stc_values' = [i \in Idx(Dim(adjacency_matrix)) |-> RatZero]
    /\ pcExact' = "zero"
    /\ UNCHANGED <<adjacency_matrix, mcVars, outsideCentrality>>

\* calculate_stc_from_cr, total_trees > 0
StcFromCr_Values ==
    /\ pcExact = "ready"
    /\ IsSymmetric(adjacency_matrix)
    /\ ~HasNegative(adjacency_matrix)
    /\ LET k == calculate_kirchhoff_matrix(adjacency_matrix)
           trees == calculate_spanning_tree_count(k)
       IN  /\ trees > 0
           /\ kirchhoff_matrix' = k
           /\ total_trees' = trees
           /\ stc_values' = NodeCentrality(adjacency_matrix, k, trees)
    /\ pcExact' = "done"
    /\ UNCHANGED <<adjacency_matrix, mcVars, outsideCentrality>>

NextExact ==
    \/ StcFromCr_NotSymmetric
    \/ StcFromCr_Negative
    \/ StcFromCr_NoTrees
    \/ StcFromCr_Values

(***************************************************************************)
(* Spanning-tree centrality engine: Monte Carlo estimator (MCSTCService).  *)
(***************************************************************************)
MaxIterations == 2   \* largest MCSTCService.iterations drawn

\* the edges (i, j, weight), i < j, in row-major order
RECURSIVE EdgesFrom(_, _, _)
EdgesFrom(m, i, j) ==
    LET n == Dim(m) IN
    IF i >= n THEN <<>>
    ELSE IF j >= n THEN EdgesFrom(m, i + 1, i + 2)
    ELSE (IF m[i, j] > 0 THEN << <<i, j, m[i, j]>> >> ELSE <<>>)
            \o EdgesFrom(m, i, j + 1)

get_edges_from_matrix(m) == EdgesFrom(m, 0, 1)

\* every outcome of random_state.choice(k, size=k, replace=False, p=...):
\* all weights are positive, so every order of the k indices can be drawn
EdgeOrders(k) ==
    { o \in [1 .. k -> Idx(k)] : \A x, y \in 1 .. k : x # y => o[x] # o[y] }

\* root of node in the union-find forest
RECURSIVE Root(_, _)
Root(parent, node) ==
    IF parent[node] = node THEN node ELSE Root(parent, parent[node])

\* nodes on the path from node up to (excluding) its root
RECURSIVE PathToRoot(_, _)
PathToRoot(parent, node) ==
    IF parent[node] = node THEN {}
    ELSE {node} \cup PathToRoot(parent, parent[node])

\* _find_parent: the forest after path compression from node
find_parent(parent, node) ==
    LET r == Root(parent, node)
    IN  [x \in DOMAIN parent |->
            IF x \in PathToRoot(parent, node) THEN r ELSE parent[x]]

\* _union without the "root_x == root_y" early return: an edge inside one
\* component is accepted as well.
union_AlwaysMerges(parent, rank, x, y) ==
    LET p1 == find_parent(parent, x)
        p2 == find_parent(p1, y)
    IN  [parent |-> [p2 EXCEPT ![Root(p1, y)] = Root(parent, x)],
         rank |-> rank, merged |-> TRUE]

\* _union: [parent, rank, merged] after union by rank of x and y
union(parent, rank, x, y) ==
    LET p1 == find_parent(parent, x)
        root_x == Root(parent, x)
        p2 == find_parent(p1, y)
        root_y == Root(p1, y)
    IN  IF root_x = root_y
        THEN [parent |-> p2, rank |-> rank, merged |-> FALSE]
        ELSE IF rank[root_x] < rank[root_y]
        THEN [parent |-> [p2 EXCEPT ![root_x] = root_y],
              rank |-> rank, merged |-> TRUE]
        ELSE IF rank[root_x] > rank[root_y]
        THEN [parent |-> [p2 EXCEPT ![root_y] = root_x],
              rank |-> rank, merged |-> TRUE]
        ELSE [parent |-> [p2 EXCEPT ![root_y] = root_x],
              rank |-> [rank EXCEPT ![root_x] = @ + 1], merged |-> TRUE]

\* the loop "for idx in edge_indices" from position k on
RECURSIVE KruskalLoop(_, _, _, _, _, _, _)
KruskalLoop(edges, order, k, parent, rank, tree_edges, n) ==
    IF k > Len(order) THEN tree_edges
    ELSE LET e == edges[order[k] + 1]
             u == union(parent, rank, e[1], e[2])
         IN  IF u.merged
             THEN IF Len(tree_edges) + 1 = n - 1
                  THEN Append(tree_edges, e)
                  ELSE KruskalLoop(edges, order, k + 1, u.parent, u.rank,
                                   Append(tree_edges, e), n)
             ELSE KruskalLoop(edges, order, k + 1, u.parent, u.rank,
                              tree_edges, n)

\* the tree matrix with every accepted edge entered as 1, its weight dropped
TreeMatrix_UnitWeights(n, tree_edges) ==
    [c \in Cells(n) |->
        IF \E x \in 1 .. Len(tree_edges) :
              {tree_edges[x][1], tree_edges[x][2]} = {c[1], c[2]} /\ c[1] # c[2]
        THEN 1 ELSE 0]

\* adjacency matrix of the tree edges
TreeMatrix(n, tree_edges) ==
    [c \in Cells(n) |->
        IF \E x \in 1 .. Len(tree_edges) :
              {tree_edges[x][1], tree_edges[x][2]} = {c[1], c[2]} /\ c[1] # c[2]
        THEN LET x == CHOOSE x \in 1 .. Len(tree_edges) :
                        {tree_edges[x][1], tree_edges[x][2]} = {c[1], c[2]}
             IN  tree_edges[x][3]
        ELSE 0]

\* generate_random_spanning_tree for one drawn order of the edges
generate_random_spanning_tree(m, order) ==
    LET n == Dim(m)
        edges == get_edges_from_matrix(m)
    IN  IF Len(edges) = 0 THEN Zeros(n)
        ELSE TreeMatrix(n, KruskalLoop(edges, order, 1,
                                       [i \in Idx(n) |-> i],
                                       [i \in Idx(n) |-> 0], <<>>, n))

\* every tree the sampler can return for m
SampledTrees(m) ==
    { generate_random_spanning_tree(m, o) :
        o \in EdgeOrders(Len(get_edges_from_matrix(m))) }

\* sum of all entries, np.sum(matrix)
TotalSum(m) == SumTo([i \in Idx(Dim(m)) |-> RowSum(m, i)], Dim(m))

\* calculate_node_importance_in_tree returning the raw weighted degrees,
\* the division by the total left out.
calculate_node_importance_in_tree_Unnormalised(tree) ==
    [i \in Idx(Dim(tree)) |-> Rat(RowSum(tree, i), 1)]

\* weighted degree of every node, normalised by the total when positive
calculate_node_importance_in_tree(tree) ==
    LET total_importance == TotalSum(tree)
    IN  [i \in Idx(Dim(tree)) |->
            IF total_importance > 0
            THEN Quot(RowSum(tree, i), total_importance)
            ELSE Rat(RowSum(tree, i), 1)]

MaxTreeWeight == 2   \* largest edge weight of the weighted inputs

\* a weighted triangle on nodes 0, 1, 2 next to the isolated node 3
WeightedTriangles ==
    { GraphMatrix(4, f, <<>>) :
        f \in [{ <<0, 1>>, <<0, 2>>, <<1, 2>> } -> 1 .. MaxTreeWeight] }

InitMC ==
    /\ \/ \E n \in 2 .. MaxNodes :
            adjacency_matrix \in SymGraphs(n, MaxWeight, MaxEdges) \cup AsymGraphs(n)
       \/ adjacency_matrix \in WeightedTriangles
    /\ pcExact = "ready"
    /\ kirchhoff_matrix = <<>>
    /\ total_trees = 0
    /\ stc_values = <<>>
    /\ pcMC = "ready"
    /\ iterations \in 1 .. MaxIterations
    /\ iteration = 0
    /\ tree_matrix = <<>>
    /\ cumulative_importance = <<>>
    /\ mc_stc_values = <<>>

\* calculate_mc_stc_from_cr: "CR matrix must be symmetric"
McStcFromCr_NotSymmetric ==
    /\ pcMC = "ready"
    /\ ~IsSymmetric(adjacency_matrix)
    /\ pcMC' = "ValueError"
    /\ UNCHANGED <<iterations, iteration, tree_matrix, cumulative_importance,
                   mc_stc_values>>
    /\ UNCHANGED <<adjacency_matrix, exactVars, outsideCentrality>>

\* calculate_mc_stc_from_cr, np.sum(cr_matrix) == 0: zero for every node
McStcFromCr_NoEdges ==
    /\ pcMC = "ready"
    /\ IsSymmetric(adjacency_matrix)
    /\ TotalSum(adjacency_matrix) = 0
    /\ mc_stc_values' = [i \in Idx(Dim(adjacency_matrix)) |-> RatZero]
    /\ pcMC' = "done"
    /\ UNCHANGED <<iterations, iteration, tree_matrix, cumulative_importance>>
    /\ UNCHANGED <<adjacency_matrix, exactVars, outsideCentrality>>

\* calculate_mc_stc_from_cr going on to sample without the symmetry test.
McStcFromCr_Begin_NoSymmetryCheck ==
    /\ pcMC = "ready"
    /\ TotalSum(adjacency_matrix) # 0
    /\ cumulative_importance' = [i \in Idx(Dim(adjacency_matrix)) |-> RatZero]
    /\ pcMC' = "sampling"
    /\ UNCHANGED <<iterations, iteration, tree_matrix, mc_stc_values>>
    /\ UNCHANGED <<adjacency_matrix, exactVars, outsideCentrality>>

\* calculate_mc_stc_from_cr: validation passed, accumulator initialised
McStcFromCr_Begin ==
    /\ pcMC = "ready"
    /\ IsSymmetric(adjacency_matrix)
    /\ TotalSum(adjacency_matrix) # 0
    /\ cumulative_importance' = [i \in Idx(Dim(adjacency_matrix)) |-> RatZero]
    /\ pcMC' = "sampling"
    /\ UNCHANGED <<iterations, iteration, tree_matrix, mc_stc_values>>
    /\ UNCHANGED <<adjacency_matrix, exactVars, outsideCentrality>>

\* one pass of "for iteration in range(self.iterations)"
McStcFromCr_Sample ==
    /\ pcMC = "sampling"
    /\ iteration < iterations
    /\ \E order \in EdgeOrders(Len(get_edges_from_matrix(adjacency_matrix))) :
        LET tree == generate_random_spanning_tree(adjacency_matrix, order)
            tree_importance == calculate_node_importance_in_tree(tree)
        IN  /\ tree_matrix' = tree
            /\ cumulative_importance' =
                [i \in DOMAIN cumulative_importance |->
                    RatAdd(cumulative_importance[i], tree_importance[i])]
    /\ iteration' = iteration + 1
    /\ UNCHANGED <<pcMC, iterations, mc_stc_values>>
    /\ UNCHANGED <<adjacency_matrix, exactVars, outsideCentrality>>

\* the average over the iterations, returned
McStcFromCr_Average ==
    /\ pcMC = "sampling"
    /\ iteration = iterations
    /\ mc_stc_values' =
        [i \in DOMAIN cumulative_importance |->
            Quot(cumulative_importance[i][1],
                 cumulative_importance[i][2] * iterations)]
    /\ pcMC' = "done"
    /\ UNCHANGED <<iterations, iteration, tree_matrix, cumulative_importance>>
    /\ UNCHANGED <<adjacency_matrix, exactVars, outsideCentrality>>

NextMC ==
    \/ McStcFromCr_NotSymmetric
    \/ McStcFromCr_NoEdges
    \/ McStcFromCr_Begin
    \/ McStcFromCr_Sample
    \/ McStcFromCr_Average
    \/ StcFromCr_NotSymmetric
    \/ StcFromCr_NoTrees
    \/ StcFromCr_Values

(***************************************************************************)
(* Two Monte Carlo estimators constructed alike and run on the same input. *)
(* self.random_state = np.random.RandomState() takes no seed: each         *)
(* construction seeds its generator from operating-system entropy.  The    *)
(* generator itself is deterministic: a draw and the state after it are    *)
(* functions of the state before it.                                       *)
(***************************************************************************)
MaxEntropy == 6      \* distinct generator states
TwinNodes == 3       \* largest graph handed to the two estimators

Estimators == {1, 2}

\* the r-th arrangement of the sequence items (r read in the factorial
\* number system)
RECURSIVE NthOrder(_, _)
NthOrder(items, r) ==
    IF Len(items) = 0 THEN <<>>
    ELSE LET k == (r % Len(items)) + 1
             rest == [x \in 1 .. (Len(items) - 1) |->
                        IF x < k THEN items[x] ELSE items[x + 1]]
         IN  <<items[k]>> \o NthOrder(rest, r \div Len(items))

\* random_state.choice(k, size=k, replace=False, p=probabilities) in
\* generator state r: an order of the indices 0 .. k-1
RandomChoice(k, r) == NthOrder([x \in 1 .. k |-> x - 1], r)

\* the generator state after one draw
NextRandomState(r) == (r + 1) % MaxEntropy

\* the loop "for iteration in range(self.iterations)" with k passes left:
\* the accumulated importance
RECURSIVE McAccumulate(_, _, _, _)
McAccumulate(m, k, r, cumulative) ==
    IF k = 0 THEN cumulative
    ELSE LET edges == get_edges_from_matrix(m)
             tree == IF Len(edges) = 0 THEN Zeros(Dim(m))
                     ELSE generate_random_spanning_tree(
                              m, RandomChoice(Len(edges), r))
             tree_importance == calculate_node_importance_in_tree(tree)
         IN  McAccumulate(m, k - 1,
                 IF Len(edges) = 0 THEN r ELSE NextRandomState(r),
                 [i \in DOMAIN cumulative |->
                     RatAdd(cumulative[i], tree_importance[i])])

\* calculate_mc_stc_from_cr on a symmetric matrix, from generator state r
calculate_mc_stc_from_cr(m, iters, r) ==
    IF TotalSum(m) = 0 THEN [i \in Idx(Dim(m)) |-> RatZero]
    ELSE LET cumulative == McAccumulate(m, iters, r,
                               [i \in Idx(Dim(m)) |-> RatZero])
         IN  [i \in DOMAIN cumulative |->
                 Quot(cumulative[i][1], cumulative[i][2] * iters)]

\* the generator state when calculate_mc_stc_from_cr returns
RECURSIVE RandomStateAfter(_, _, _)
RandomStateAfter(m, k, r) ==
    IF k = 0 \/ TotalSum(m) = 0 \/ Len(get_edges_from_matrix(m)) = 0 THEN r
    ELSE RandomStateAfter(m, k - 1, NextRandomState(r))

InitTwin ==
    /\ \E n \in 2 .. TwinNodes :
        twin_cr \in SymGraphs(n, MaxWeight, MaxEdges) \cup AsymGraphs(n)
    /\ twin_iterations \in 1 .. MaxIterations
    /\ twin_pc = [e \in Estimators |-> "new"]
    /\ twin_entropy = [e \in Estimators |-> 0]
    /\ random_state = [e \in Estimators |-> 0]
    /\ twin_values = [e \in Estimators |-> <<>>]

IdleTwin ==
    /\ twin_cr = <<>>
    /\ twin_iterations = 0
    /\ twin_pc = [e \in Estimators |-> "idle"]
    /\ twin_entropy = [e \in Estimators |-> 0]
    /\ random_state = [e \in Estimators |-> 0]
    /\ twin_values = [e \in Estimators |-> <<>>]

\* MCSTCService.__init__(project_id, iterations): no seed is accepted, the
\* generator is seeded with whatever the operating system supplies
TwinConstruct(e) ==
    /\ twin_pc[e] = "new"
    /\ \E r \in Idx(MaxEntropy) :
        /\ twin_entropy' = [twin_entropy EXCEPT ![e] = r]
        /\ random_state' = [random_state EXCEPT ![e] = r]
    /\ twin_pc' = [twin_pc EXCEPT ![e] = "ready"]
    /\ UNCHANGED <<twin_cr, twin_iterations, twin_values, outsideTwin>>

\* calculate_mc_stc_from_cr: "CR matrix must be symmetric"
TwinEstimate_NotSymmetric(e) ==
    /\ twin_pc[e] = "ready"
    /\ ~IsSymmetric(twin_cr)
    /\ twin_pc' = [twin_pc EXCEPT ![e] = "ValueError"]
    /\ UNCHANGED <<twin_cr, twin_iterations, twin_entropy, random_state,
                   twin_values, outsideTwin>>

\* calculate_mc_stc_from_cr, one whole call
TwinEstimate(e) ==
    /\ twin_pc[e] = "ready"
    /\ IsSymmetric(twin_cr)
    /\ twin_values' = [twin_values EXCEPT ![e] =
          calculate_mc_stc_from_cr(twin_cr, twin_iterations, random_state[e])]
    /\ random_state' = [random_state EXCEPT ![e] =
          RandomStateAfter(twin_cr, twin_iterations, random_state[e])]
    /\ twin_pc' = [twin_pc EXCEPT ![e] = "done"]
    /\ UNCHANGED <<twin_cr, twin_iterations, twin_entropy, outsideTwin>>

NextTwin ==
    \E e \in Estimators :
        \/ TwinConstruct(e)
        \/ TwinEstimate_NotSymmetric(e)
        \/ TwinEstimate(e)

(***************************************************************************)
(* Coordination pair ranker (MCSTCAnalysisService._generate_coordination_  *)
(* pairs and the top pairs kept by start_analysis).                        *)
(***************************************************************************)
RankUsers == 3       \* contributors of the fully enumerated ranker inputs
ManyUsers == 6       \* contributors of the dense ranker inputs (15 pairs)
MaxDeviations == 2   \* pairs of a dense input whose requirement is not 1

RatSub(a, b) == Quot(a[1] * b[2] - b[1] * a[2], a[2] * b[2])
RatMul(a, b) == Quot(a[1] * b[1], a[2] * b[2])
RatAbs(a) == Rat(Abs(a[1]), a[2])

\* role_mapping.get(user, 'unclassified')
RoleOf(roles, user) ==
    IF user \in DOMAIN roles THEN roles[user] ELSE "unclassified"

\* the pair_data with the missed threshold inclusive (gap >= 0.1).
PairData_InclusiveThreshold(users, cr, ca, roles, i, j) ==
    LET role1 == RoleOf(roles, users[i + 1])
        role2 == RoleOf(roles, users[j + 1])
        coordination_gap == RatSub(cr[i, j], ca[i, j])
    IN  [contributor1_id |-> users[i + 1],
         contributor1_role |-> role1,
         contributor2_id |-> users[j + 1],
         contributor2_role |-> role2,
         coordination_requirement |-> cr[i, j],
         actual_coordination |-> ca[i, j],
         coordination_gap |-> coordination_gap,
         impact_score |-> RatMul(RatAbs(coordination_gap), cr[i, j]),
         is_inter_class |-> role1 # role2,
         is_missed_coordination |-> RatLe(Rat(1, 10), coordination_gap),
         is_unnecessary_coordination |-> RatLt(coordination_gap, Rat(0 - 1, 10))]

\* the pair_data of contributors i < j (matrix indices)
PairData(users, cr, ca, roles, i, j) ==
    LET cr_value == cr[i, j]
        ca_value == ca[i, j]
        role1 == RoleOf(roles, users[i + 1])
        role2 == RoleOf(roles, users[j + 1])
        coordination_gap == RatSub(cr_value, ca_value)
    IN  [contributor1_id |-> users[i + 1],
         contributor1_role |-> role1,
         contributor2_id |-> users[j + 1],
         contributor2_role |-> role2,
         coordination_requirement |-> cr_value,
         actual_coordination |-> ca_value,
         coordination_gap |-> coordination_gap,
         impact_score |-> RatMul(RatAbs(coordination_gap), cr_value),
         is_inter_class |-> role1 # role2,
         is_missed_coordination |-> RatLt(Rat(1, 10), coordination_gap),
         is_unnecessary_coordination |-> RatLt(coordination_gap, Rat(0 - 1, 10))]

\* the two nested loops over all_users from (i, j) on: a record for every
\* i < j with cr_matrix[i, j] > 0, in row-major order
RECURSIVE DiscoverPairs(_, _, _, _, _, _)
DiscoverPairs(users, cr, ca, roles, i, j) ==
    LET n == Len(users) IN
    IF i >= n THEN <<>>
    ELSE IF j >= n THEN DiscoverPairs(users, cr, ca, roles, i + 1, 0)
    ELSE (IF i < j /\ RatLt(RatZero, cr[i, j])
          THEN <<PairData(users, cr, ca, roles, i, j)>> ELSE <<>>)
            \o DiscoverPairs(users, cr, ca, roles, i, j + 1)

\* rec placed ahead of the records whose impact equals its own: a sort that
\* is descending but not stable.
InsertByImpact_BeforeEquals(sorted, rec) ==
    LET ahead == { x \in 1 .. Len(sorted) :
                     RatLt(rec.impact_score, sorted[x].impact_score) }
        k == Cardinality(ahead)
    IN  SubSeq(sorted, 1, k) \o <<rec>> \o SubSeq(sorted, k + 1, Len(sorted))

\* rec placed behind every record whose impact is at least its own
InsertByImpact(sorted, rec) ==
    LET ahead == { x \in 1 .. Len(sorted) :
                     RatLe(rec.impact_score, sorted[x].impact_score) }
        k == Cardinality(ahead)
    IN  SubSeq(sorted, 1, k) \o <<rec>> \o SubSeq(sorted, k + 1, Len(sorted))

\* pairs.sort(key=impact_score, reverse=True): stable, descending
RECURSIVE SortByImpact(_, _)
SortByImpact(list, k) ==
    IF k = 0 THEN <<>>
    ELSE InsertByImpact(SortByImpact(list, k - 1), list[k])

generate_coordination_pairs(users, cr, ca, roles) ==
    LET found == DiscoverPairs(users, cr, ca, roles, 0, 0)
    IN  SortByImpact(found, Len(found))

\* MCSTCCoordinationPairSerializer.get_coordination_status
get_coordination_status(obj) ==
    IF obj.is_missed_coordination THEN "missed"
    ELSE IF obj.is_unnecessary_coordination THEN "unnecessary"
    ELSE "adequate"

\* coordination_pairs[:TopPairs]
TopPairs == 10

Prefix(list, k) == SubSeq(list, 1, IF Len(list) < k THEN Len(list) ELSE k)

CrValues == { Rat(0, 1), Rat(1, 1), Rat(2, 1) }
CaValues == { Rat(0, 1), Rat(9, 10), Rat(21, 10) }
RoleValues == { "developer", "security", "unclassified" }

\* symmetric zero-diagonal matrix with the entries f on the pairs i < j
RatGraph(n, f) ==
    [c \in Cells(n) |->
        IF c \in DOMAIN f THEN f[c]
        ELSE IF <<c[2], c[1]>> \in DOMAIN f THEN f[c[2], c[1]]
        ELSE RatZero]

\* a project with many contributors: every pair requires coordination
\* (weight 1) except at most k pairs of another weight, and at most one
\* pair coordinates
DenseRequirements(n, k) ==
    { RatGraph(n, [c \in Pairs(n) |-> IF c \in DOMAIN f THEN f[c] ELSE RatOne]) :
        f \in UNION { [S -> { Rat(0, 1), Rat(2, 1) }] :
                        S \in { T \in SUBSET Pairs(n) : Cardinality(T) <= k } } }

SparseActuals(n) ==
    { RatGraph(n, [c \in S |-> Rat(9, 10)]) :
        S \in { T \in SUBSET Pairs(n) : Cardinality(T) <= 1 } }

\* a requirements matrix that is not symmetric, as the builder returns for
\* a dependency matrix that is not: one directed entry
DirectedRequirements(n) ==
    { [c \in Cells(n) |-> IF c = e THEN RatOne ELSE RatZero] :
        e \in { c \in Cells(n) : c[1] # c[2] } }

InitRank ==
    /\ pcRank = "ready"
    /\ \/ \E n \in 2 .. RankUsers :
            /\ all_users = [x \in 1 .. n |-> x]
            /\ rank_cr \in DirectedRequirements(n)
            /\ rank_ca = RatGraph(n, <<>>)
            /\ role_mapping = [u \in {1} |-> "security"]
       \/ \E n \in 2 .. RankUsers :
            /\ all_users = [x \in 1 .. n |-> x]
            /\ \E f \in [Pairs(n) -> CrValues] : rank_cr = RatGraph(n, f)
            /\ \E f \in [Pairs(n) -> CaValues] : rank_ca = RatGraph(n, f)
            /\ \E U \in SUBSET (1 .. n) : role_mapping \in [U -> RoleValues]
       \/ /\ all_users = [x \in 1 .. ManyUsers |-> x]
          /\ rank_cr \in DenseRequirements(ManyUsers, MaxDeviations)
          /\ rank_ca \in SparseActuals(ManyUsers)
          /\ role_mapping = [u \in {1} |-> "security"]
    /\ pairs = <<>>
    /\ top_coordination_pairs = <<>>
    /\ pair_thread = "none"

IdleRank ==
    /\ pcRank = "idle"
    /\ all_users = <<>>
    /\ rank_cr = <<>>
    /\ rank_ca = <<>>
    /\ role_mapping = <<>>
    /\ pairs = <<>>
    /\ top_coordination_pairs = <<>>
    /\ pair_thread = "none"

\* start_analysis: the pairs are generated (the writer thread started when
\* there are any) and the first TopPairs of them stored on the analysis
GenerateCoordinationPairs ==
    /\ pcRank = "ready"
    /\ LET coordination_pairs ==
            generate_coordination_pairs(all_users, rank_cr, rank_ca, role_mapping)
       IN  /\ pairs' = coordination_pairs
           /\ pair_thread' = IF Len(coordination_pairs) > 0 THEN "started" ELSE "none"
           /\ top_coordination_pairs' = Prefix(coordination_pairs, TopPairs)
    /\ pcRank' = "done"
    /\ UNCHANGED <<all_users, rank_cr, rank_ca, role_mapping, outsideRank>>

NextRank == GenerateCoordinationPairs

(***************************************************************************)
(* Matrix aligner (MCSTCAnalysisService._align_matrix_dimensions).         *)
(***************************************************************************)
MaxAlignUsers == 2   \* most rows of an assignment matrix handed to the aligner
MaxAlignFiles == 7   \* most files (assignment columns, dependency rows)

\* "if abs(assign_cols - dep_rows) <= 5"
AlignTolerance == 5

\* np.pad(m, ((0, rows - m.rows), (0, cols - m.cols)), constant_values=0)
Pad(m, rows, cols) ==
    [x \in Idx(rows) \X Idx(cols) |-> IF x \in DOMAIN m THEN m[x] ELSE 0]

\* m[:, :cols]
SliceCols(m, cols) == [x \in Idx(Rows(m)) \X Idx(cols) |-> m[x]]

\* _align_matrix_dimensions with the tolerance test strict (a difference of
\* 5 rejected).
align_matrix_dimensions_StrictTolerance(assignment, dependency) ==
    LET assign_cols == Cols(assignment)
        dep_rows == Rows(dependency)
        max_files == IF assign_cols > dep_rows THEN assign_cols ELSE dep_rows
    IN  IF Abs(assign_cols - dep_rows) < AlignTolerance
        THEN [ok |-> TRUE,
              assignment |-> Pad(assignment, Rows(assignment), max_files),
              dependency |-> Pad(SliceCols(Pad(dependency, max_files,
                                 IF Cols(dependency) > max_files
                                 THEN Cols(dependency) ELSE max_files),
                                 max_files), max_files, max_files)]
        ELSE [ok |-> FALSE,
              assign_files |-> assign_cols, dep_files |-> dep_rows,
              difference |-> Abs(assign_cols - dep_rows)]

\* _align_matrix_dimensions: the two matrices returned, or what the
\* ValueError names
align_matrix_dimensions(assignment, dependency) ==
    LET assign_cols == Cols(assignment)
        dep_rows == Rows(dependency)
        max_files == IF assign_cols > dep_rows THEN assign_cols ELSE dep_rows
    IN  IF Abs(assign_cols - dep_rows) <= AlignTolerance
        THEN LET padded_assignment ==
                    IF assign_cols < max_files
                    THEN Pad(assignment, Rows(assignment), max_files)
                    ELSE assignment
                 padded_dependency ==
                    IF dep_rows < max_files
                    THEN Pad(dependency, max_files, Cols(dependency))
                    ELSE dependency
                 dep_size == Rows(padded_dependency)
                 square_dependency ==
                    IF Cols(padded_dependency) < dep_size
                    THEN Pad(padded_dependency, dep_size, dep_size)
                    ELSE IF Cols(padded_dependency) > dep_size
                    THEN SliceCols(padded_dependency, dep_size)
                    ELSE padded_dependency
             IN  [ok |-> TRUE, assignment |-> padded_assignment,
                  dependency |-> square_dependency]
        ELSE [ok |-> FALSE,
              assign_files |-> assign_cols, dep_files |-> dep_rows,
              difference |-> Abs(assign_cols - dep_rows)]

\* r x c matrices with at most one positive cell, of value 1 .. w
OneCellMatrices(r, c, w) ==
    { [x \in Idx(r) \X Idx(c) |-> 0] } \cup
    { [x \in Idx(r) \X Idx(c) |-> IF x = e THEN v ELSE 0] :
        e \in Idx(r) \X Idx(c), v \in 1 .. w }

InitAlign ==
    /\ pcAlign = "ready"
    /\ \E r \in 1 .. MaxAlignUsers, c \in 1 .. MaxAlignFiles :
          align_assignment \in OneCellMatrices(r, c, MaxWeight)
    /\ \E r \in 1 .. MaxAlignFiles :
          \E c \in { k \in 1 .. (MaxAlignFiles + 1) : Abs(k - r) <= 1 } :
             align_dependency \in OneCellMatrices(r, c, MaxWeight)
    /\ aligned = <<>>
    /\ align_error = <<>>

IdleAlign ==
    /\ pcAlign = "idle"
    /\ align_assignment = <<>>
    /\ align_dependency = <<>>
    /\ aligned = <<>>
    /\ align_error = <<>>

\* the file counts are within the tolerance: both matrices returned
AlignMatrixDimensions ==
    /\ pcAlign = "ready"
    /\ LET result == align_matrix_dimensions(align_assignment, align_dependency)
       IN  /\ result.ok
           /\ aligned' = <<result.assignment, result.dependency>>
    /\ pcAlign' = "aligned"
    /\ UNCHANGED <<align_assignment, align_dependency, align_error, outsideAlign>>

\* "Matrix dimensions too different to align": ValueError, nothing returned
AlignMatrixDimensions_TooDifferent ==
    /\ pcAlign = "ready"
    /\ LET result == align_matrix_dimensions(align_assignment, align_dependency)
       IN  /\ ~result.ok
           /\ align_error' = [assign_files |-> result.assign_files,
                              dep_files |-> result.dep_files,
                              difference |-> result.difference]
    /\ pcAlign' = "ValueError"
    /\ UNCHANGED <<align_assignment, align_dependency, aligned, outsideAlign>>

NextAlign ==
    \/ AlignMatrixDimensions
    \/ AlignMatrixDimensions_TooDifferent

(***************************************************************************)
(* TNM matrix loader (MCSTCAnalysisService._convert_tnm_matrix_to_numpy).  *)
(* A JSON object is the set of its items [key, value], the keys distinct;   *)
(* a key is a string of decimal digits given as the sequence of its digits. *)
(***************************************************************************)
MaxFlatLength == 5   \* longest flat list handed to the loader
MaxRowEntries == 2   \* most rows of a sparse map, most entries of a row

\* int(key)
RECURSIVE ParseInt(_)
ParseInt(key) ==
    IF Len(key) = 0 THEN 0
    ELSE 10 * ParseInt(SubSeq(key, 1, Len(key) - 1)) + key[Len(key)]

\* the keys "0", "1", "2" and "10"
Keys == { <<0>>, <<1>>, <<2>>, <<1, 0>> }

\* max of a non-empty set of integers
Max(S) == CHOOSE x \in S : \A y \in S : y <= x

\* int(np.sqrt(n))
Isqrt(n) == CHOOSE r \in 0 .. n : r * r <= n /\ n < (r + 1) * (r + 1)

\* np.array(items).reshape(size, size) read down the columns instead of
\* along the rows.
Reshape_ColumnMajor(items, size) ==
    [x \in Cells(size) |-> items[x[2] * size + x[1] + 1]]

\* np.array(items).reshape(size, size): row-major
Reshape(items, size) ==
    [x \in Cells(size) |-> items[x[1] * size + x[2] + 1]]

\* np.array(list_of_lists) for rows of equal length
FromRows(rows) ==
    [x \in Idx(Len(rows)) \X Idx(Len(rows[1])) |-> rows[x[1] + 1][x[2] + 1]]

\* the dense matrix of a sparse map whose rows are all mappings
Densify(rows) ==
    LET max_row == IF rows = {} THEN 0
                   ELSE Max({ ParseInt(r.key) : r \in rows })
        entries == UNION { { [row |-> ParseInt(r.key), col |-> ParseInt(c.key),
                              value |-> c.value] : c \in r.value.cols } :
                           r \in rows }
        max_col == Max({ e.col : e \in entries } \cup {0})
    IN  [x \in Idx(max_row + 1) \X Idx(max_col + 1) |->
            IF \E e \in entries : e.row = x[1] /\ e.col = x[2]
            THEN (CHOOSE e \in entries : e.row = x[1] /\ e.col = x[2]).value
            ELSE 0]

\* _convert_tnm_matrix_to_numpy: the array, or the ValueError raised.  A
\* list is nested when its first element is a list (isinstance(
\* matrix_data[0], list)); the empty list is a list without values.
convert_tnm_matrix_to_numpy(data) ==
    IF data.kind = "none" THEN [ok |-> FALSE, error |-> "data is None"]
    ELSE IF data.kind = "dict"
    THEN IF \E r \in data.rows : r.value.kind # "dict"
         THEN [ok |-> FALSE, error |-> "invalid row format"]
         ELSE [ok |-> TRUE, matrix |-> Densify(data.rows)]
    ELSE IF data.kind = "list"
    THEN IF ~data.nested /\ Len(data.values) = 0
         THEN [ok |-> FALSE, error |-> "empty list"]
         ELSE IF data.nested
         THEN [ok |-> TRUE, matrix |-> FromRows(data.lists)]
         ELSE LET size == Isqrt(Len(data.values))
              IN  IF size * size # Len(data.values)
                  THEN [ok |-> FALSE, error |-> "not a perfect square"]
                  ELSE [ok |-> TRUE, matrix |-> Reshape(data.values, size)]
    ELSE [ok |-> FALSE, error |-> "unsupported format"]

\* the JSON objects with at most k items, keys from Keys, values from V
Objects(V, k) ==
    UNION { { { [key |-> c, value |-> f[c]] : c \in C } : f \in [C -> V] } :
            C \in { T \in SUBSET Keys : Cardinality(T) <= k } }

\* the values a row key can carry: a nested mapping of at most
\* MaxRowEntries entries, or a bare number
RowValues ==
    { [kind |-> "number"] } \cup
    { [kind |-> "dict", cols |-> g] : g \in Objects(1 .. MaxWeight, MaxRowEntries) }

SparseMaps ==
    { [kind |-> "dict", rows |-> f] : f \in Objects(RowValues, MaxRowEntries) }

FlatLists ==
    UNION { { [kind |-> "list", nested |-> FALSE, values |-> f] :
                f \in [1 .. n -> 0 .. MaxWeight] } : n \in 0 .. MaxFlatLength }

ListsOfLists ==
    UNION { { [kind |-> "list", nested |-> TRUE, lists |-> f] :
                f \in [1 .. r -> [1 .. c -> 0 .. MaxWeight]] } :
            r \in 1 .. 2, c \in 1 .. 2 }

InitConvert ==
    /\ pcConvert = "ready"
    /\ matrix_data \in SparseMaps \cup FlatLists \cup ListsOfLists
                         \cup { [kind |-> "none"], [kind |-> "string"] }
    /\ dense_matrix = <<>>
    /\ convert_error = ""

IdleConvert ==
    /\ pcConvert = "idle"
    /\ matrix_data = <<>>
    /\ dense_matrix = <<>>
    /\ convert_error = ""

\* the loader returns an array
ConvertTnmMatrix ==
    /\ pcConvert = "ready"
    /\ LET result == convert_tnm_matrix_to_numpy(matrix_data)
       IN  result.ok /\ dense_matrix' = result.matrix
    /\ pcConvert' = "done"
    /\ UNCHANGED <<matrix_data, convert_error, outsideConvert>>

\* the loader raises ValueError
ConvertTnmMatrix_ValueError ==
    /\ pcConvert = "ready"
    /\ LET result == convert_tnm_matrix_to_numpy(matrix_data)
       IN  ~result.ok /\ convert_error' = result.error
    /\ pcConvert' = "ValueError"
    /\ UNCHANGED <<matrix_data, dense_matrix, outsideConvert>>

NextConvert ==
    \/ ConvertTnmMatrix
    \/ ConvertTnmMatrix_ValueError

(***************************************************************************)
(* Sparse matrix loading of the STC run (STCAnalysisViewSet.start_analysis *)
(* and _load_sparse_matrix).                                               *)
(***************************************************************************)
\* _load_sparse_matrix: rows at or beyond num_rows and columns at or beyond
\* num_cols are skipped
load_sparse_matrix(json_data, num_rows, num_cols) ==
    LET kept == UNION { { [row |-> ParseInt(r.key), col |-> ParseInt(c.key),
                           value |-> c.value] :
                          c \in { c \in r.value.cols : ParseInt(c.key) < num_cols } } :
                        r \in { r \in json_data : ParseInt(r.key) < num_rows } }
    IN  [x \in Idx(num_rows) \X Idx(num_cols) |->
            IF \E e \in kept : e.row = x[1] /\ e.col = x[2]
            THEN (CHOOSE e \in kept : e.row = x[1] /\ e.col = x[2]).value
            ELSE 0]

\* all_file_ids: the column keys of both maps (strings) and, once per
\* dependency row, int(first key of dependency_data) (an integer, equal to
\* no string)
all_file_ids(assignment, dependency) ==
    { [type |-> "str", id |-> c.key] :
        c \in UNION { r.value.cols : r \in assignment \cup dependency } }
    \cup (IF dependency = {} THEN {}
          ELSE { [type |-> "int",
                  id |-> <<ParseInt((CHOOSE r \in dependency : TRUE).key)>>] })

HasPlainRowIn(json_data) == \E r \in json_data : r.value.kind # "dict"

InitLoad ==
    /\ pcLoad = "ready"
    /\ assignment_data \in Objects(RowValues, MaxRowEntries)
    /\ dependency_data \in Objects(RowValues, 1)
    /\ loaded = <<>>

IdleLoad ==
    /\ pcLoad = "idle"
    /\ assignment_data = {}
    /\ dependency_data = {}
    /\ loaded = <<>>

\* start_analysis: the dimensions are counted and both maps made dense
LoadSparseMatrices ==
    /\ pcLoad = "ready"
    /\ ~HasPlainRowIn(assignment_data) /\ ~HasPlainRowIn(dependency_data)
    /\ LET num_users == Cardinality({ r.key : r \in assignment_data })
           num_files == Cardinality(all_file_ids(assignment_data, dependency_data))
       IN  loaded' = << load_sparse_matrix(assignment_data, num_users, num_files),
                        load_sparse_matrix(dependency_data, num_files, num_files) >>
    /\ pcLoad' = "loaded"
    /\ UNCHANGED <<assignment_data, dependency_data, outsideLoad>>

\* a row value without keys(): AttributeError, answered as STC_ANALYSIS_ERROR
LoadSparseMatrices_Error ==
    /\ pcLoad = "ready"
    /\ HasPlainRowIn(assignment_data) \/ HasPlainRowIn(dependency_data)
    /\ pcLoad' = "STC_ANALYSIS_ERROR"
    /\ UNCHANGED <<assignment_data, dependency_data, loaded, outsideLoad>>

NextLoad ==
    \/ LoadSparseMatrices
    \/ LoadSparseMatrices_Error

(***************************************************************************)
(* Create and update requests on STC and MC-STC analyses                   *)
(* (STCAnalysisViewSet, MCSTCAnalysisViewSet and their serializers).       *)
(***************************************************************************)
MaxAnalyses == 2     \* analyses of each kind that are created

MinIterations == 100            \* validate_monte_carlo_iterations, lower limit
MaxIterationsAllowed == 10000   \* validate_monte_carlo_iterations, upper limit
DefaultIterations == 1000       \* models.IntegerField(default=1000)

Kinds == {"stc", "mcstc"}

\* the request bodies: the field left out, or one of the values around the
\* two limits
IterationRequests ==
    { [has_iterations |-> FALSE, monte_carlo_iterations |-> DefaultIterations] }
    \cup { [has_iterations |-> TRUE, monte_carlo_iterations |-> v] :
             v \in { MinIterations - 1, MinIterations, MaxIterationsAllowed,
                     MaxIterationsAllowed + 1 } }

\* validate_monte_carlo_iterations of both create serializers: TRUE when the
\* value is returned, FALSE when a ValidationError is raised
validate_monte_carlo_iterations(value) ==
    IF value < MinIterations THEN FALSE
    ELSE IF value > MaxIterationsAllowed THEN FALSE
    ELSE TRUE

\* is_valid() of the create serializers: the field validator runs only for
\* a field that is present
CreateSerializerValid(data) ==
    data.has_iterations => validate_monte_carlo_iterations(data.monte_carlo_iterations)

\* is_valid() of STCAnalysisSerializer / MCSTCAnalysisSerializer, which the
\* viewsets use for every action but create: monte_carlo_iterations is a
\* writable model field and the serializer declares no validator for it
UpdateSerializerValid(data) == TRUE

InitCreate ==
    /\ stored_iterations = [k \in Kinds |-> <<>>]
    /\ create_response = "none"

IdleCreate == InitCreate

\* POST analyses/: the row is created with the value sent, or with the
\* model default when the field is left out
CreateAnalysis(kind) ==
    /\ Len(stored_iterations[kind]) < MaxAnalyses
    /\ \E data \in IterationRequests :
        /\ CreateSerializerValid(data)
        /\ stored_iterations' =
              [stored_iterations EXCEPT ![kind] =
                  Append(@, IF data.has_iterations
                            THEN data.monte_carlo_iterations
                            ELSE DefaultIterations)]
    /\ create_response' = "HTTP_201_CREATED"
    /\ UNCHANGED outsideCreate

\* POST analyses/ answered with a validation error: nothing is stored
CreateAnalysis_ValidationError(kind) ==
    /\ \E data \in IterationRequests : ~CreateSerializerValid(data)
    /\ create_response' = "HTTP_400_BAD_REQUEST"
    /\ UNCHANGED <<stored_iterations, outsideCreate>>

\* PUT / PATCH analyses/{id}/: ModelViewSet.update with the read serializer
UpdateAnalysis(kind) ==
    /\ \E id \in 1 .. Len(stored_iterations[kind]) :
       \E data \in IterationRequests :
        /\ UpdateSerializerValid(data)
        /\ stored_iterations' =
              [stored_iterations EXCEPT ![kind][id] =
                  IF data.has_iterations THEN data.monte_carlo_iterations ELSE @]
    /\ create_response' = "HTTP_200_OK"
    /\ UNCHANGED outsideCreate

NextCreate ==
    \E kind \in Kinds :
        \/ CreateAnalysis(kind)
        \/ CreateAnalysis_ValidationError(kind)
        \/ UpdateAnalysis(kind)

(***************************************************************************)
(* STCAnalysisViewSet.start_analysis: the STC run of one request.          *)
(***************************************************************************)
NumStcAnalyses == 2   \* STC analyses stored

\* what a request can find in the TNM output directory: no
\* AssignmentMatrix.json; no FileDependencyMatrix.json next to it; a file
\* that is not JSON; all files present and well-formed
TnmOutputs == {"missing", "no_dependency_file", "not_json", "well_formed"}

\* the parameters the constructors declare besides self
InitParameters(use_monte_carlo) ==
    IF use_monte_carlo THEN {"project_id", "iterations"}   \* MCSTCService
    ELSE {"project_id"}                                    \* STCService

\* the keyword arguments start_analysis constructs its service with
StartAnalysisKeywords == {"project_id", "threshold"}

\* calling a constructor: TRUE when the object is built, FALSE when Python
\* raises TypeError for an unexpected keyword argument
ConstructService(use_monte_carlo, keywords) ==
    keywords \subseteq InitParameters(use_monte_carlo)

NoStcResponse ==
    [analysis_id |-> 0, status |-> "none", error_code |-> "none", data |-> {}]

StcErrorResponse(id, status, code) ==
    [analysis_id |-> id, status |-> status, error_code |-> code, data |-> {}]

\* a row as STCAnalysis.objects.create leaves it, and a row marked completed
\* (is_completed and results_file are writable fields of the update
\* serializer, and fixtures store such rows)
StcRows ==
    { [is_completed |-> FALSE, use_monte_carlo |-> mc,
       results_file |-> "None", error_message |-> "None"] : mc \in BOOLEAN }
    \cup { [is_completed |-> TRUE, use_monte_carlo |-> mc,
            results_file |-> "stc_results.json", error_message |-> "None"] :
             mc \in BOOLEAN }

InitStc ==
    /\ stc_analyses \in [1 .. NumStcAnalyses -> StcRows]
    /\ stc_tnm_output = "not_read"
    /\ stc_response = NoStcResponse

IdleStc ==
    /\ stc_analyses = [id \in 1 .. NumStcAnalyses |->
                          [is_completed |-> FALSE, use_monte_carlo |-> FALSE,
                           results_file |-> "None", error_message |-> "None"]]
    /\ stc_tnm_output = "not_read"
    /\ stc_response = NoStcResponse

\* the test of "if analysis.is_completed" with no completed analysis found
AlreadyCompleted_Never(row) == FALSE

\* "if analysis.is_completed"
AlreadyCompleted(row) == row.is_completed

\* analysis.error_message = ...; analysis.save()
SaveStcError(id, message) ==
    stc_analyses' = [stc_analyses EXCEPT ![id].error_message = message]

\* the request is answered 400 before anything is read or written
StcStart_AlreadyCompleted(id) ==
    /\ AlreadyCompleted(stc_analyses[id])
    /\ stc_response' = StcErrorResponse(id, "HTTP_400_BAD_REQUEST",
                                        "ANALYSIS_ALREADY_COMPLETED")
    /\ stc_tnm_output' = "not_read"
    /\ UNCHANGED <<stc_analyses, outsideStc>>

\* AssignmentMatrix.json does not exist
StcStart_TnmNotFound(id) ==
    /\ ~AlreadyCompleted(stc_analyses[id])
    /\ stc_tnm_output' = "missing"
    /\ SaveStcError(id, "TNM output not found")
    /\ stc_response' = StcErrorResponse(id, "HTTP_404_NOT_FOUND",
                                        "TNM_DATA_NOT_FOUND")
    /\ UNCHANGED outsideStc

\* json.load raises JSONDecodeError, a ValueError
StcStart_InvalidData(id) ==
    /\ ~AlreadyCompleted(stc_analyses[id])
    /\ stc_tnm_output' = "not_json"
    /\ SaveStcError(id, "JSONDecodeError")
    /\ stc_response' = StcErrorResponse(id, "HTTP_400_BAD_REQUEST", "INVALID_DATA")
    /\ UNCHANGED outsideStc

\* open(dependency_path) raises FileNotFoundError: "except Exception"
StcStart_FileError(id) ==
    /\ ~AlreadyCompleted(stc_analyses[id])
    /\ stc_tnm_output' = "no_dependency_file"
    /\ SaveStcError(id, "FileNotFoundError")
    /\ stc_response' = StcErrorResponse(id, "HTTP_500_INTERNAL_SERVER_ERROR",
                                        "STC_ANALYSIS_ERROR")
    /\ UNCHANGED outsideStc

\* the files are loaded and the service is constructed; when the
\* constructor returns, the score is computed, the results file written and
\* the row completed; when it raises, "except Exception" records the error
StcStart_Calculate(id) ==
    /\ ~AlreadyCompleted(stc_analyses[id])
    /\ stc_tnm_output' = "well_formed"
    /\ IF ConstructService(stc_analyses[id].use_monte_carlo, StartAnalysisKeywords)
       THEN /\ stc_analyses' =
                  [stc_analyses EXCEPT ![id].results_file = "stc_results.json",
                                       ![id].is_completed = TRUE,
                                       ![id].error_message = "None"]
            /\ stc_response' =
                  [analysis_id |-> id, status |-> "HTTP_200_OK",
                   error_code |-> "none",
                   data |-> {"analysis_id", "stc_value", "results_file",
                             "top_missed_coordination"}]
       ELSE /\ SaveStcError(id, "TypeError")
            /\ stc_response' =
                  StcErrorResponse(id, "HTTP_500_INTERNAL_SERVER_ERROR",
                                   "STC_ANALYSIS_ERROR")
    /\ UNCHANGED outsideStc

NextStc ==
    \E id \in 1 .. NumStcAnalyses :
        \/ StcStart_AlreadyCompleted(id)
        \/ StcStart_TnmNotFound(id)
        \/ StcStart_InvalidData(id)
        \/ StcStart_FileError(id)
        \/ StcStart_Calculate(id)

(***************************************************************************)
(* MCSTCAnalysisService.start_analysis behind MCSTCAnalysisViewSet: one    *)
(* MC-STC analysis, its runs, the thread writing its coordination pairs    *)
(* and the results query.                                                  *)
(***************************************************************************)
RunUsers == 3    \* contributors listed in idToUser.json
MaxRuns == 2     \* start_analysis requests that reach the service

BatchSize == 1000    \* batch_size of _create_coordination_pairs_async
TopResults == 20     \* order_by('-impact_score')[:20] of get_analysis_results

\* a float field that holds no value
Null == <<>>

Roles == Classes \cup {"unclassified"}

ScoreFields(row) ==
    { row.mcstc_value, row.inter_class_coordination_score,
      row.intra_class_coordination_score, row.developer_security_coordination,
      row.developer_ops_coordination, row.security_ops_coordination }

\* the row MCSTCAnalysis.objects.create stores
NewMcAnalysis ==
    [is_completed |-> FALSE, error_message |-> "None",
     mcstc_value |-> Null, inter_class_coordination_score |-> Null,
     intra_class_coordination_score |-> Null,
     developer_security_coordination |-> Null,
     developer_ops_coordination |-> Null, security_ops_coordination |-> Null,
     top_coordination_pairs |-> <<>>]

NoMcResponse ==
    [status |-> "none", error_code |-> "none", success |-> FALSE,
     mcstc_value |-> Null, run_status |-> "none"]

\* the view's answer to result['success'] being False
McFailure ==
    [status |-> "HTTP_400_BAD_REQUEST", error_code |-> "MCSTC_ANALYSIS_FAILED",
     success |-> FALSE, mcstc_value |-> Null, run_status |-> "none"]

\* the view's answer to result['success'] being True
McSuccess(obj) ==
    [status |-> "HTTP_200_OK", error_code |-> "none", success |-> TRUE,
     mcstc_value |-> obj.mcstc_value,
     run_status |-> IF obj.is_completed THEN "completed" ELSE "running"]

NoResults == [status |-> "none", pair_rows |-> {}]

\* the data one run reads: the number of rows of the assignment matrix (the
\* last contributor of idToUser.json may have no row), the role of every
\* contributor, and the two coordination matrices
RunInputs ==
    UNION { { [matrix_users |-> m, roles |-> r, cr |-> cr, ca |-> ca] :
                r \in [Idx(RunUsers) -> Roles],
                cr \in { GraphMatrix(m, [e \in S |-> 1], <<>>) :
                           S \in SUBSET Pairs(m) },
                ca \in { GraphMatrix(m, <<>>, <<>>),
                         GraphMatrix(m, [e \in Pairs(m) |-> 1], <<>>) } } :
            m \in { RunUsers - 1, RunUsers } }

UsersOf(roles, role) == { u \in DOMAIN roles : roles[u] = role }

\* "if len(security_users) > 0 and len(developer_users) > 0"
SufficientRoleData(roles) ==
    UsersOf(roles, "security") # {} /\ UsersOf(roles, "developer") # {}

RECURSIVE SumCells(_, _)
SumCells(m, S) ==
    IF S = {} THEN 0
    ELSE LET c == CHOOSE x \in S : TRUE IN m[c] + SumCells(m, S \ {c})

\* _calculate_role_coordination, on users that index the matrices
calculate_role_coordination(cr, ca, role1_users, role2_users) ==
    IF role1_users = {} \/ role2_users = {} THEN RatZero
    ELSE LET total_cr == SumCells(cr, role1_users \X role2_users)
             total_ca == SumCells(ca, role1_users \X role2_users)
         IN  IF total_cr > 0 THEN Quot(total_ca, total_cr) ELSE RatZero

\* cr_matrix[i, j] of _calculate_role_coordination raises IndexError for a
\* classified contributor without a row
CalculationRaises(inp) ==
    \E u \in UsersOf(inp.roles, "developer") \cup UsersOf(inp.roles, "security")
               \cup UsersOf(inp.roles, "ops") : u >= inp.matrix_users

\* cr_matrix[i, j] of _generate_coordination_pairs, read for every i < j of
\* all_users, raises IndexError when a contributor has no row
PairGenerationRaises(inp) == RunUsers > inp.matrix_users

\* the analysis object after "Update analysis results"
WithScores(obj, inp) ==
    LET developer_users == UsersOf(inp.roles, "developer")
        security_users == UsersOf(inp.roles, "security")
        ops_users == UsersOf(inp.roles, "ops")
        dev_sec_score == calculate_role_coordination(inp.cr, inp.ca,
                             developer_users, security_users)
    IN  [obj EXCEPT
           !.mcstc_value =
               calculate_mc_stc(inp.cr, inp.ca,
                   TwoClassAssignments(Dim(inp.cr), security_users)),
           !.inter_class_coordination_score = dev_sec_score,
           !.intra_class_coordination_score = calculate_stc(inp.cr, inp.ca),
           !.developer_security_coordination = dev_sec_score,
           !.developer_ops_coordination =
               calculate_role_coordination(inp.cr, inp.ca, developer_users, ops_users),
           !.security_ops_coordination =
               calculate_role_coordination(inp.cr, inp.ca, security_users, ops_users)]

\* float(cr_value) of every cell
ToFloat(m) == [c \in DOMAIN m |-> Rat(m[c], 1)]

\* the list _generate_coordination_pairs returns
RunPairs(inp) ==
    generate_coordination_pairs([x \in 1 .. RunUsers |-> x - 1],
                                ToFloat(inp.cr), ToFloat(inp.ca), inp.roles)

SeqToSet(list) == { list[k] : k \in 1 .. Len(list) }

InitRun ==
    /\ mc_analysis = NewMcAnalysis
    /\ analysis = NewMcAnalysis
    /\ pcRun = "idle"
    /\ run_count = 0
    /\ run_roles = <<>>
    /\ computed_pairs = <<>>
    /\ pair_table = {}
    /\ pair_queue = <<>>
    /\ mc_response = NoMcResponse
    /\ results_seen = NoResults

IdleRun == InitRun

\* the view's test of "if analysis.is_completed" left out
RunRejected_Never(row) == FALSE

\* the view's "if analysis.is_completed"
RunRejected(row) == row.is_completed

\* what every request that reaches the service starts with: the object is
\* the stored row, the stored pairs are deleted
ServiceEntered ==
    /\ pcRun = "idle"
    /\ ~RunRejected(mc_analysis)
    /\ run_count < MaxRuns
    /\ run_count' = run_count + 1
    /\ pair_table' = {}

\* a run that ends with analysis.error_message = message; analysis.save()
\* and success False, obj being the object at that point
FailWith(obj, message) ==
    /\ analysis' = [obj EXCEPT !.error_message = message]
    /\ mc_analysis' = [obj EXCEPT !.error_message = message]
    /\ mc_response' = McFailure
    /\ pcRun' = "idle"

\* the view answers 400 ANALYSIS_ALREADY_COMPLETED; the service is not called
McStart_AlreadyCompleted ==
    /\ pcRun = "idle"
    /\ RunRejected(mc_analysis)
    /\ mc_response' = [NoMcResponse EXCEPT
                          !.status = "HTTP_400_BAD_REQUEST",
                          !.error_code = "ANALYSIS_ALREADY_COMPLETED"]
    /\ UNCHANGED <<mc_analysis, analysis, pcRun, run_count, run_roles,
                   computed_pairs, pair_table, pair_queue, results_seen>>
    /\ UNCHANGED outsideRun

\* "Missing TNM files"
McStart_MissingFiles ==
    /\ ServiceEntered
    /\ FailWith(mc_analysis, "Missing TNM files")
    /\ UNCHANGED <<run_roles, computed_pairs, pair_queue, results_seen>>
    /\ UNCHANGED outsideRun

\* "Matrix conversion error": the loader or the aligner raised ValueError
McStart_ConversionError ==
    /\ ServiceEntered
    /\ FailWith(mc_analysis, "Matrix conversion error")
    /\ UNCHANGED <<run_roles, computed_pairs, pair_queue, results_seen>>
    /\ UNCHANGED outsideRun

\* "MC-STC calculation error": an exception inside the scoring block
McStart_CalculationError ==
    /\ ServiceEntered
    /\ \E inp \in RunInputs :
        /\ SufficientRoleData(inp.roles)
        /\ CalculationRaises(inp)
        /\ run_roles' = inp.roles
    /\ FailWith(mc_analysis, "MC-STC calculation error")
    /\ UNCHANGED <<computed_pairs, pair_queue, results_seen>>
    /\ UNCHANGED outsideRun

\* the else branch: the message is stored and the run answers success
McStart_Insufficient ==
    /\ ServiceEntered
    /\ \E inp \in RunInputs :
        /\ ~SufficientRoleData(inp.roles)
        /\ run_roles' = inp.roles
    /\ LET obj == [mc_analysis EXCEPT
                     !.error_message = "Insufficient role data for MC-STC analysis"]
       IN  /\ analysis' = obj
           /\ mc_analysis' = obj
           /\ mc_response' = McSuccess(obj)
    /\ pcRun' = "idle"
    /\ UNCHANGED <<computed_pairs, pair_queue, results_seen>>
    /\ UNCHANGED outsideRun

\* the scores are assigned to the object, then _generate_coordination_pairs
\* raises: the outer "except Exception" stores the message with
\* analysis.save()
McStart_PairGenerationError ==
    /\ ServiceEntered
    /\ \E inp \in RunInputs :
        /\ SufficientRoleData(inp.roles)
        /\ ~CalculationRaises(inp)
        /\ PairGenerationRaises(inp)
        /\ run_roles' = inp.roles
        /\ FailWith(WithScores(mc_analysis, inp), "IndexError")
    /\ UNCHANGED <<computed_pairs, pair_queue, results_seen>>
    /\ UNCHANGED outsideRun

\* the scores are assigned, the pairs generated and their writer thread
\* started (when there are pairs), the first TopPairs kept on the object and
\* the object marked completed; analysis.save() is still to come
McStart_GeneratePairs ==
    /\ ServiceEntered
    /\ \E inp \in RunInputs :
        /\ SufficientRoleData(inp.roles)
        /\ ~CalculationRaises(inp)
        /\ ~PairGenerationRaises(inp)
        /\ run_roles' = inp.roles
        /\ computed_pairs' = RunPairs(inp)
        /\ pair_queue' = RunPairs(inp)
        /\ analysis' = [WithScores(mc_analysis, inp) EXCEPT
                          !.top_coordination_pairs = Prefix(RunPairs(inp), TopPairs),
                          !.is_completed = TRUE]
    /\ pcRun' = "saving"
    /\ UNCHANGED <<mc_analysis, mc_response, results_seen>>
    /\ UNCHANGED outsideRun

\* analysis.save() and the answer of the successful run
McStart_Save ==
    /\ pcRun = "saving"
    /\ mc_analysis' = analysis
    /\ mc_response' = McSuccess(analysis)
    /\ pcRun' = "idle"
    /\ UNCHANGED <<analysis, run_count, run_roles, computed_pairs,
                   pair_table, pair_queue, results_seen>>
    /\ UNCHANGED outsideRun

\* _create_coordination_pairs_async: one bulk_create of the next batch
PairWriter_BulkCreate ==
    /\ pair_queue # <<>>
    /\ LET batch == Prefix(pair_queue, BatchSize)
       IN  /\ pair_table' = pair_table \cup SeqToSet(batch)
           /\ pair_queue' = SubSeq(pair_queue, Len(batch) + 1, Len(pair_queue))
    /\ UNCHANGED <<mc_analysis, analysis, pcRun, run_count, run_roles,
                   computed_pairs, mc_response, results_seen>>
    /\ UNCHANGED outsideRun

\* the rows get_analysis_results can return: TopResults rows of the table,
\* none of them of lower impact than a row left out
TopRows(table) ==
    { S \in SUBSET table :
        /\ Cardinality(S) = (IF Cardinality(table) < TopResults
                             THEN Cardinality(table) ELSE TopResults)
        /\ \A a \in S : \A b \in table \ S :
              RatLe(b.impact_score, a.impact_score) }

\* GET results/: 400 until the row is completed, then the stored pairs
GetResults ==
    /\ \/ /\ ~mc_analysis.is_completed
          /\ results_seen' = [status |-> "ANALYSIS_NOT_COMPLETED", pair_rows |-> {}]
       \/ /\ mc_analysis.is_completed
          /\ \E rows \in TopRows(pair_table) :
                results_seen' = [status |-> "HTTP_200_OK", pair_rows |-> rows]
    /\ UNCHANGED <<mc_analysis, analysis, pcRun, run_count, run_roles,
                   computed_pairs, pair_table, pair_queue, mc_response>>
    /\ UNCHANGED outsideRun

NextRun ==
    \/ McStart_AlreadyCompleted
    \/ McStart_MissingFiles
    \/ McStart_ConversionError
    \/ McStart_CalculationError
    \/ McStart_Insufficient
    \/ McStart_PairGenerationError
    \/ McStart_GeneratePairs
    \/ McStart_Save
    \/ PairWriter_BulkCreate
    \/ GetResults

(***************************************************************************)
(* create_monitoring_analysis: requests for one project, served by         *)
(* concurrent request handlers, each query a step of its own.              *)
(***************************************************************************)
MaxRequests == 3   \* create_monitoring_analysis requests sent

AnalysisTypes == {"stc", "mc_stc"}

\* indices of the rows of the type that are pending or running
ActiveRows(rows, type) ==
    { k \in 1 .. Len(rows) :
        rows[k].analysis_type = type /\ rows[k].status \in {"pending", "running"} }

\* CreateMonitoringAnalysisSerializer.validate: TRUE when data is returned,
\* FALSE when the ValidationError is raised
validate(rows, data) ==
    IF ~data.force_rerun
    THEN LET existing == ActiveRows(rows, data.analysis_type) # {}
         IN  IF existing THEN FALSE ELSE TRUE
    ELSE TRUE

\* the update(...) of the pending and running rows of the type
CancelActive(rows, type) ==
    [k \in 1 .. Len(rows) |->
        IF k \in ActiveRows(rows, type)
        THEN [rows[k] EXCEPT !.status = "failed",
                             !.error_message = "Cancelled by force rerun"]
        ELSE rows[k]]

InitMonitor ==
    /\ monitoring = <<>>
    /\ monitor_requests \in
          [1 .. MaxRequests ->
              { [analysis_type |-> t, force_rerun |-> f, pc |-> "unsent"] :
                  t \in AnalysisTypes, f \in BOOLEAN }]

IdleMonitor ==
    /\ monitoring = <<>>
    /\ monitor_requests =
          [r \in 1 .. MaxRequests |->
              [analysis_type |-> "stc", force_rerun |-> FALSE, pc |-> "idle"]]

\* serializer.is_valid() returns True
MonitorValidate(r) ==
    /\ monitor_requests[r].pc = "unsent"
    /\ validate(monitoring, monitor_requests[r])
    /\ monitor_requests' = [monitor_requests EXCEPT ![r].pc = "validated"]
    /\ UNCHANGED <<monitoring, outsideMonitor>>

\* serializer.is_valid() returns False: 400 VALIDATION_ERROR
MonitorValidate_Rejected(r) ==
    /\ monitor_requests[r].pc = "unsent"
    /\ ~validate(monitoring, monitor_requests[r])
    /\ monitor_requests' = [monitor_requests EXCEPT ![r].pc = "rejected"]
    /\ UNCHANGED <<monitoring, outsideMonitor>>

\* force_rerun: the pending and running rows are marked failed
MonitorCancel(r) ==
    /\ monitor_requests[r].pc = "validated"
    /\ monitor_requests[r].force_rerun
    /\ monitoring' = CancelActive(monitoring, monitor_requests[r].analysis_type)
    /\ monitor_requests' = [monitor_requests EXCEPT ![r].pc = "cancelled"]
    /\ UNCHANGED outsideMonitor

\* ProjectMonitoring.objects.create(..., status=PENDING) and the answer
MonitorCreate(r) ==
    /\ \/ monitor_requests[r].pc = "cancelled"
       \/ monitor_requests[r].pc = "validated" /\ ~monitor_requests[r].force_rerun
    /\ monitoring' = Append(monitoring,
                        [analysis_type |-> monitor_requests[r].analysis_type,
                         status |-> "pending", error_message |-> "None"])
    /\ monitor_requests' = [monitor_requests EXCEPT ![r].pc = "created"]
    /\ UNCHANGED outsideMonitor

NextMonitor ==
    \E r \in 1 .. MaxRequests :
        \/ MonitorValidate(r)
        \/ MonitorValidate_Rejected(r)
        \/ MonitorCancel(r)
        \/ MonitorCreate(r)

(***************************************************************************)
(* Asynchronous TNM contributor analysis (contributors/tasks.py):          *)
(* AsyncTaskManager and the worker thread of every task.                   *)
(***************************************************************************)
MaxTasks == 3   \* tasks registered

\* AsyncTaskManager.create_task
create_task ==
    [status |-> "pending", started_at |-> "None", completed_at |-> "None",
     result |-> "None", error |-> "None", progress |-> 0]

\* AsyncTaskManager.start_task
start_task(task) == [task EXCEPT !.status = "running", !.started_at = "now"]

\* complete_task leaving progress where the worker last put it
complete_task_KeepsProgress(task, result) ==
    [task EXCEPT !.status = "completed", !.completed_at = "now",
                 !.result = result]

\* AsyncTaskManager.complete_task
complete_task(task, result) ==
    [task EXCEPT !.status = "completed", !.completed_at = "now",
                 !.result = result, !.progress = 100]

\* AsyncTaskManager.fail_task
fail_task(task, error) ==
    [task EXCEPT !.status = "failed", !.completed_at = "now", !.error = error]

InitTask ==
    /\ tasks = <<>>
    /\ workers = <<>>

IdleTask == InitTask

\* start_tnm_contributor_analysis_async: the task is created and its daemon
\* thread started
StartAsync ==
    /\ Len(tasks) < MaxTasks
    /\ tasks' = Append(tasks, create_task)
    /\ workers' = Append(workers, "started")
    /\ UNCHANGED outsideTask

\* thread.start() raises RuntimeError after the task was created: the task
\* has no worker
StartAsync_ThreadError ==
    /\ Len(tasks) < MaxTasks
    /\ tasks' = Append(tasks, create_task)
    /\ workers' = Append(workers, "none")
    /\ UNCHANGED outsideTask

\* the worker marks its task as started
Worker_Start(t) ==
    /\ workers[t] = "started"
    /\ tasks' = [tasks EXCEPT ![t] = start_task(@)]
    /\ workers' = [workers EXCEPT ![t] = "running"]
    /\ UNCHANGED outsideTask

\* Project.objects.get returns; progress=10
Worker_GetProject(t) ==
    /\ workers[t] = "running"
    /\ tasks' = [tasks EXCEPT ![t].progress = 10]
    /\ workers' = [workers EXCEPT ![t] = "project"]
    /\ UNCHANGED outsideTask

\* Project.objects.get raises: Project.DoesNotExist or any other exception
Worker_GetProject_Raises(t) ==
    /\ workers[t] = "running"
    /\ \E error \in {"Project not found", "TNM contributor analysis failed"} :
          tasks' = [tasks EXCEPT ![t] = fail_task(@, error)]
    /\ workers' = [workers EXCEPT ![t] = "returned"]
    /\ UNCHANGED outsideTask

\* analyze_assignment_matrix returns its result; progress=90
Worker_Analyze(t) ==
    /\ workers[t] = "project"
    /\ tasks' = [tasks EXCEPT ![t].progress = 90]
    /\ workers' = [workers EXCEPT ![t] = "analysed"]
    /\ UNCHANGED outsideTask

\* analyze_assignment_matrix raises
Worker_Analyze_Raises(t) ==
    /\ workers[t] = "project"
    /\ tasks' = [tasks EXCEPT ![t] = fail_task(@, "TNM contributor analysis failed")]
    /\ workers' = [workers EXCEPT ![t] = "returned"]
    /\ UNCHANGED outsideTask

\* complete_task with the analysis result; the worker returns
Worker_Complete(t) ==
    /\ workers[t] = "analysed"
    /\ tasks' = [tasks EXCEPT ![t] = complete_task(@, "analysis_result")]
    /\ workers' = [workers EXCEPT ![t] = "returned"]
    /\ UNCHANGED outsideTask

\* the steps of the worker thread of task t
WorkerStep(t) ==
    /\ t \in 1 .. Len(workers)
    /\ \/ Worker_Start(t)
       \/ Worker_GetProject(t)
       \/ Worker_GetProject_Raises(t)
       \/ Worker_Analyze(t)
       \/ Worker_Analyze_Raises(t)
       \/ Worker_Complete(t)

NextTask ==
    \/ StartAsync
    \/ StartAsync_ThreadError
    \/ \E t \in 1 .. MaxTasks : WorkerStep(t)

(***************************************************************************)
(* Specifications, one per component.                                      *)
(***************************************************************************)
IdleServices == IdleCreate /\ IdleStc /\ IdleRun /\ IdleMonitor /\ IdleTask

IdleEngine ==
    /\ IdleScore /\ IdleBuild /\ IdleCentrality /\ IdleTwin
    /\ IdleRank /\ IdleAlign /\ IdleConvert /\ IdleLoad

InitScoreOnly ==
    InitScore /\ IdleBuild /\ IdleCentrality /\ IdleTwin /\ IdleRank /\ IdleAlign /\ IdleConvert /\ IdleLoad
 /\ IdleServices
SpecScore == InitScoreOnly /\ [][NextScore]_vars

InitBuildOnly ==
    InitBuild /\ IdleScore /\ IdleCentrality /\ IdleTwin /\ IdleRank /\ IdleAlign /\ IdleConvert /\ IdleLoad
 /\ IdleServices
SpecBuild == InitBuildOnly /\ [][NextBuild]_vars

InitExactOnly ==
    InitExact /\ IdleScore /\ IdleBuild /\ IdleTwin /\ IdleRank /\ IdleAlign /\ IdleConvert /\ IdleLoad
 /\ IdleServices
SpecExact == InitExactOnly /\ [][NextExact]_vars

InitMCOnly ==
    InitMC /\ IdleScore /\ IdleBuild /\ IdleTwin /\ IdleRank /\ IdleAlign /\ IdleConvert /\ IdleLoad
 /\ IdleServices
SpecMC == InitMCOnly /\ [][NextMC]_vars

InitTwinOnly ==
    InitTwin /\ IdleScore /\ IdleBuild /\ IdleCentrality /\ IdleRank /\ IdleAlign /\ IdleConvert /\ IdleLoad
 /\ IdleServices
SpecTwin == InitTwinOnly /\ [][NextTwin]_vars

InitRankOnly ==
    /\ InitRank /\ IdleScore /\ IdleBuild /\ IdleCentrality /\ IdleTwin
    /\ IdleAlign /\ IdleConvert /\ IdleLoad
 /\ IdleServices
SpecRank == InitRankOnly /\ [][NextRank]_vars

InitAlignOnly ==
    /\ InitAlign /\ IdleScore /\ IdleBuild /\ IdleCentrality /\ IdleTwin
    /\ IdleRank /\ IdleConvert /\ IdleLoad
 /\ IdleServices
SpecAlign == InitAlignOnly /\ [][NextAlign]_vars

InitConvertOnly ==
    /\ InitConvert /\ IdleScore /\ IdleBuild /\ IdleCentrality /\ IdleTwin
    /\ IdleRank /\ IdleAlign /\ IdleLoad
 /\ IdleServices
SpecConvert == InitConvertOnly /\ [][NextConvert]_vars

InitLoadOnly ==
    /\ InitLoad /\ IdleScore /\ IdleBuild /\ IdleCentrality /\ IdleTwin
    /\ IdleRank /\ IdleAlign /\ IdleConvert
 /\ IdleServices
SpecLoad == InitLoadOnly /\ [][NextLoad]_vars

InitCreateOnly ==
    /\ InitCreate /\ IdleEngine /\ IdleStc /\ IdleRun /\ IdleMonitor /\ IdleTask
SpecCreate == InitCreateOnly /\ [][NextCreate]_vars

InitStcOnly ==
    /\ InitStc /\ IdleEngine /\ IdleCreate /\ IdleRun /\ IdleMonitor /\ IdleTask
SpecStc == InitStcOnly /\ [][NextStc]_vars

InitRunOnly ==
    /\ InitRun /\ IdleEngine /\ IdleCreate /\ IdleStc /\ IdleMonitor /\ IdleTask
SpecRun == InitRunOnly /\ [][NextRun]_vars

InitMonitorOnly ==
    /\ InitMonitor /\ IdleEngine /\ IdleCreate /\ IdleStc /\ IdleRun /\ IdleTask
SpecMonitor == InitMonitorOnly /\ [][NextMonitor]_vars

InitTaskOnly ==
    /\ InitTask /\ IdleEngine /\ IdleCreate /\ IdleStc /\ IdleRun /\ IdleMonitor
SpecTask == InitTaskOnly /\ [][NextTask]_vars

\* a started thread is scheduled for as long as the process lives: every
\* worker step that stays enabled is eventually taken
SpecTaskFair ==
    SpecTask /\ \A t \in 1 .. MaxTasks : WF_vars(WorkerStep(t))

(***************************************************************************)
(* Claims about the congruence scorer, checked under SpecScore.            *)
(***************************************************************************)
Scored == pcScore \in {"stc", "mc_stc", "2c_stc"}
InterClassScored == pcScore \in {"mc_stc", "2c_stc"}

OffDiagonal(m) == { c \in DOMAIN m : c[1] # c[2] }

\* cells between contributors of different classes (after an inter-class call)
InterClassCells == { c \in DOMAIN cr_matrix :
                        class_assignments[c[1]] # class_assignments[c[2]] }

\* C1: every score, plain or inter-class, is a well-formed ratio in [0, 1].
C1_ScoreInUnitInterval ==
    Scored => /\ stc[2] > 0
              /\ RatLe(RatZero, stc)
              /\ RatLe(stc, RatOne)

\* C1 witness: an inter-class score strictly between 0 and 1.
C1_Witness ==
    /\ pcScore = "mc_stc"
    /\ RatLt(RatZero, stc)
    /\ RatLt(stc, RatOne)

\* C2 (as stated): score(M, M) = 1.0 for a symmetric zero-diagonal M with a
\* positive off-diagonal entry, and the inter-class score is 1.0 whenever
\* every required inter-class edge is also an actual edge.
C2_PerfectCongruence_AsStated ==
    /\ (pcScore = "stc" /\ cr_matrix = ca_matrix /\ IsSymmetric(cr_matrix)
          /\ ZeroDiagonal(cr_matrix) /\ RequiredEdges(cr_matrix) # {})
            => RatEq(stc, RatOne)
    /\ (InterClassScored
          /\ \A c \in InterClassCells : cr_matrix[c] > 0 => ca_matrix[c] > 0)
            => RatEq(stc, RatOne)

\* C2 (amended): as stated, the inter-class half restricted to runs with at
\* least one required inter-class edge.
C2_PerfectCongruence ==
    /\ (pcScore = "stc" /\ cr_matrix = ca_matrix /\ IsSymmetric(cr_matrix)
          /\ ZeroDiagonal(cr_matrix) /\ RequiredEdges(cr_matrix) # {})
            => RatEq(stc, RatOne)
    /\ (InterClassScored
          /\ (\E c \in InterClassCells : cr_matrix[c] > 0)
          /\ \A c \in InterClassCells : cr_matrix[c] > 0 => ca_matrix[c] > 0)
            => RatEq(stc, RatOne)

\* C2 witness: a symmetric zero-diagonal M with a required edge scored
\* against itself.
C2_Witness ==
    /\ pcScore = "stc"
    /\ cr_matrix = ca_matrix
    /\ IsSymmetric(cr_matrix)
    /\ ZeroDiagonal(cr_matrix)
    /\ RequiredEdges(cr_matrix) # {}
    /\ RatEq(stc, RatOne)

\* C3: with no positive off-diagonal entry in CR the score is 0.0 whatever
\* CA holds, and the scorer fails only on a shape mismatch.
C3_ZeroRequiredIsZero ==
    /\ (pcScore = "stc" /\ \A c \in OffDiagonal(cr_matrix) : cr_matrix[c] = 0)
            => (stc[1] = 0 /\ stc[2] > 0)
    /\ pcScore = "ValueError" => DOMAIN cr_matrix # DOMAIN ca_matrix

\* C3 witness: nothing required (only a positive diagonal entry in CR) while
\* CA does hold coordination.
C3_Witness ==
    /\ pcScore = "stc"
    /\ \A c \in OffDiagonal(cr_matrix) : cr_matrix[c] = 0
    /\ \E c \in DOMAIN cr_matrix : cr_matrix[c] > 0
    /\ \E c \in OffDiagonal(ca_matrix) : ca_matrix[c] > 0

\* C4: the inter-class entry points zero every same-class cell of CR and CA,
\* keep every other cell, and score the ratio of what is left; coordination
\* that is only intra-class scores 0.0.
C4_InterClassFilter ==
    InterClassScored =>
        LET required == { c \in InterClassCells : c[1] # c[2] /\ cr_matrix[c] > 0 }
            satisfied == { c \in required : ca_matrix[c] > 0 }
        IN  /\ \A c \in DOMAIN cr_matrix :
                IF c \in InterClassCells
                THEN mc_cr[c] = cr_matrix[c] /\ mc_ca[c] = ca_matrix[c]
                ELSE mc_cr[c] = 0 /\ mc_ca[c] = 0
            /\ stc = IF required # {}
                     THEN Rat(Cardinality(satisfied), Cardinality(required))
                     ELSE RatZero
            /\ (\A c \in InterClassCells : ca_matrix[c] = 0) => stc[1] = 0

\* C4 witness: required inter-class coordination exists, the actual
\* coordination is all inside one class, and the score is 0.
C4_Witness ==
    /\ pcScore = "mc_stc"
    /\ \E c \in InterClassCells : cr_matrix[c] > 0
    /\ \E c \in OffDiagonal(ca_matrix) : ca_matrix[c] > 0
    /\ \A c \in InterClassCells : ca_matrix[c] = 0
    /\ \E c \in OffDiagonal(cr_matrix) \ InterClassCells : cr_matrix[c] > 0
    /\ stc[1] = 0

(***************************************************************************)
(* Claims about the coordination matrix builder, checked under SpecBuild.  *)
(***************************************************************************)
IsUserSquare(m) == DOMAIN m = Cells(NumUsers)

\* C5: for every assignment and every dependency matrix, symmetric or not,
\* the CR built from them is users x users, symmetric and zero on the
\* diagonal.
C5_BuildCRSymmetricZeroDiagonal ==
    pcBuild = "cr" =>
        /\ IsUserSquare(built)
        /\ IsSymmetric(built)
        /\ ZeroDiagonal(built)

\* What does hold of the built CR: its shape and its zero diagonal.
C5_BuildCRShapeAndDiagonal ==
    pcBuild = "cr" => (IsUserSquare(built) /\ ZeroDiagonal(built))

\* C6: the collaboration-strength matrix assignment . assignment^T is
\* symmetric and zero on the diagonal for every assignment matrix.
C6_CollaborationCASymmetricZeroDiagonal ==
    pcBuild = "ca" =>
        /\ IsSymmetric(built)
        /\ ZeroDiagonal(built)

\* What does hold of assignment . assignment^T: symmetry, and a diagonal
\* that is zero only for contributors without any contribution.
C6_CollaborationCASymmetric ==
    pcBuild = "ca" =>
        /\ IsUserSquare(built)
        /\ IsSymmetric(built)
        /\ \A u \in Idx(NumUsers) :
            built[u, u] = 0 <=>
                \A f \in Idx(NumFiles) : assignment_matrix[u, f] = 0

(***************************************************************************)
(* Claims about the exact estimator, checked under SpecExact.              *)
(***************************************************************************)
\* the undirected unweighted graph with the given edges
Unweighted(n, E) == GraphMatrix(n, [e \in E |-> 1], <<>>)

\* reference graphs
Path3(mid) == Unweighted(3, { e \in Pairs(3) : mid \in {e[1], e[2]} })
Cycle4 == Unweighted(4, { <<0, 1>>, <<1, 2>>, <<2, 3>>, <<0, 3>> })
Star4(center) == Unweighted(4, { e \in Pairs(4) : center \in {e[1], e[2]} })

IsUnweighted(m) == \A c \in DOMAIN m : m[c] \in {0, 1}

EdgesOf(m) == { c \in Pairs(Dim(m)) : m[c] > 0 }

\* nodes connected to the nodes of S by the edges of T
RECURSIVE Reach(_, _)
Reach(T, S) ==
    LET more == S \cup { e[1] : e \in { x \in T : x[2] \in S } }
                  \cup { e[2] : e \in { x \in T : x[1] \in S } }
    IN  IF more = S THEN S ELSE Reach(T, more)

\* the spanning trees of the graph, counted from the definition: n - 1 edges
\* that connect all n nodes
SpanningTrees(m) ==
    { T \in SUBSET EdgesOf(m) :
        /\ Cardinality(T) = Dim(m) - 1
        /\ Reach(T, {0}) = Idx(Dim(m)) }

IsConnected(m) == Reach(EdgesOf(m), {0}) = Idx(Dim(m))

ExactReturned == pcExact \in {"done", "zero"}

\* the general part of C7: on every unweighted symmetric zero-diagonal graph
\* the (0,0) cofactor of the Laplacian is the number of spanning trees; 1 on
\* the 3-node path, 4 on the 4-node cycle, 0 on a disconnected graph
CofactorCountsSpanningTrees ==
    (ExactReturned /\ IsUnweighted(adjacency_matrix)
                   /\ ZeroDiagonal(adjacency_matrix)) =>
        /\ kirchhoff_matrix = [c \in DOMAIN adjacency_matrix |->
                IF c[1] = c[2]
                THEN Cardinality({ e \in EdgesOf(adjacency_matrix) :
                                        c[1] \in {e[1], e[2]} })
                ELSE 0 - adjacency_matrix[c]]
        /\ total_trees = Cardinality(SpanningTrees(adjacency_matrix))
        /\ adjacency_matrix = Path3(1) => total_trees = 1
        /\ adjacency_matrix = Cycle4 => total_trees = 4
        /\ ~IsConnected(adjacency_matrix) => total_trees = 0

\* C7 (as stated): the cofactor counts the spanning trees, with 3 spanning
\* trees on the 4-node star.
C7_SpanningTreeCount_AsStated ==
    /\ CofactorCountsSpanningTrees
    /\ \A c \in Idx(4) :
        (ExactReturned /\ adjacency_matrix = Star4(c)) => total_trees = 3

\* C7 (amended): the cofactor counts the spanning trees; the 4-node star,
\* being a tree, has exactly 1.
C7_SpanningTreeCount ==
    /\ CofactorCountsSpanningTrees
    /\ \A c \in Idx(4) :
        (ExactReturned /\ adjacency_matrix = Star4(c)) => total_trees = 1

\* C7 witness: the exact estimator has run on the 4-node star with centre 0.
C7_Witness ==
    /\ pcExact = "done"
    /\ adjacency_matrix = Star4(0)
    /\ total_trees = 1

\* sum of the rationals v[0] .. v[n-1]
RECURSIVE RatSumTo(_, _)
RatSumTo(v, n) == IF n = 0 THEN RatZero ELSE RatAdd(v[n - 1], RatSumTo(v, n - 1))

\* C8: the exact centrality map sums to 1 over all nodes whenever the graph
\* has a spanning tree.
C8_ExactCentralitySumsToOne ==
    pcExact = "done" =>
        RatEq(RatSumTo(stc_values, Dim(adjacency_matrix)), RatOne)

\* What does hold of the exact map: every value is non-negative; on the
\* 3-node path the values are 1, 2, 1 and sum to 4.
C8_ExactCentralityNonNegative ==
    pcExact = "done" =>
        /\ \A i \in DOMAIN stc_values : RatLe(RatZero, stc_values[i])
        /\ adjacency_matrix = Path3(1) =>
            RatEq(RatSumTo(stc_values, 3), Rat(4, 1))

\* C9: on the 3-node path the middle node's exact centrality is strictly
\* greater than both ends'; on the 4-node star the leaves are equal and the
\* centre strictly greater.
C9_ExactCentralityOrder ==
    /\ \A mid \in Idx(3) :
        (ExactReturned /\ adjacency_matrix = Path3(mid)) =>
            \A i \in Idx(3) \ {mid} : RatLt(stc_values[i], stc_values[mid])
    /\ \A c \in Idx(4) :
        (ExactReturned /\ adjacency_matrix = Star4(c)) =>
            \A i, j \in Idx(4) \ {c} :
                /\ RatEq(stc_values[i], stc_values[j])
                /\ RatLt(stc_values[i], stc_values[c])

\* C9 witness: the star with a centre other than the node whose row and
\* column the cofactor removes.
C9_Witness ==
    /\ pcExact = "done"
    /\ adjacency_matrix = Star4(2)
    /\ RatLt(stc_values[0], stc_values[2])

(***************************************************************************)
(* Claims about the Monte Carlo estimator, checked under SpecMC.           *)
(***************************************************************************)
RatAbsDiff(a, b) == Rat(Abs(a[1] * b[2] - b[1] * a[2]), a[2] * b[2])

BothReturned == pcExact = "done" /\ pcMC = "done"

\* C10: both estimators agree in expectation; where the graph has a single
\* spanning tree every sample is that tree, so the Monte Carlo value is its
\* expectation and equals the exact value; on the 4-node star every node is
\* within 0.05 of its exact value and the centre is strictly greatest under
\* both.
C10_EstimatorsAgree ==
    /\ (BothReturned /\ total_trees = 1 /\ IsUnweighted(adjacency_matrix)) =>
            \A i \in DOMAIN stc_values :
                RatEq(mc_stc_values[i], stc_values[i])
    /\ \A c \in Idx(4) :
        (BothReturned /\ adjacency_matrix = Star4(c)) =>
            /\ \A i \in Idx(4) :
                RatLe(RatAbsDiff(mc_stc_values[i], stc_values[i]), Rat(1, 20))
            /\ \A i \in Idx(4) \ {c} :
                /\ RatLt(stc_values[i], stc_values[c])
                /\ RatLt(mc_stc_values[i], mc_stc_values[c])

\* The star part of C10 alone.
C10_StarWithinTolerance ==
    \A c \in Idx(4) :
        (BothReturned /\ adjacency_matrix = Star4(c)) =>
            \A i \in Idx(4) :
                RatLe(RatAbsDiff(mc_stc_values[i], stc_values[i]), Rat(1, 20))

\* What does hold on the star: the centre is strictly greatest under both
\* estimators, the Monte Carlo map is 1/2 for the centre and 1/6 for a leaf,
\* the exact map 6 and 2.
C10_StarValues ==
    \A c \in Idx(4) :
        (BothReturned /\ adjacency_matrix = Star4(c)) =>
            \A i \in Idx(4) \ {c} :
                /\ RatEq(mc_stc_values[c], Rat(1, 2))
                /\ RatEq(mc_stc_values[i], Rat(1, 6))
                /\ RatEq(stc_values[c], Rat(6, 1))
                /\ RatEq(stc_values[i], Rat(2, 1))

Sampled == pcMC = "sampling" /\ iteration > 0

\* C11: for every connected graph given as a symmetric non-negative weight
\* matrix and every order in which the edges are drawn, the sampler returns
\* a symmetric matrix with exactly n - 1 undirected edges (which are edges
\* of the graph, with their weights, and connect all n nodes).
C11_SamplerReturnsSpanningTree ==
    (Sampled /\ IsConnected(adjacency_matrix)) =>
        /\ DOMAIN tree_matrix = DOMAIN adjacency_matrix
        /\ IsSymmetric(tree_matrix)
        /\ Cardinality(EdgesOf(tree_matrix)) = Dim(adjacency_matrix) - 1
        /\ IsConnected(tree_matrix)
        /\ \A c \in DOMAIN tree_matrix :
              tree_matrix[c] \in {0, adjacency_matrix[c]} /\ (c[1] = c[2] => tree_matrix[c] = 0)

\* C11 witness: a tree sampled from the 4-node cycle whose edge 0-1, first
\* in row-major order, was not taken.
C11_Witness ==
    /\ Sampled
    /\ adjacency_matrix = Cycle4
    /\ tree_matrix[0, 1] = 0
    /\ Cardinality(EdgesOf(tree_matrix)) = 3

McReturned == pcMC = "done"

\* C12: the Monte Carlo map is 0 for every node when the graph has no
\* edges; otherwise its values are non-negative and sum to 1, every sampled
\* tree's importances summing to 1 (the running sum equals the number of
\* samples) and exactly `iterations` trees being averaged.
C12_McCentralityNormalised ==
    /\ (McReturned /\ EdgesOf(adjacency_matrix) = {}) =>
          \A i \in DOMAIN mc_stc_values : RatEq(mc_stc_values[i], RatZero)
    /\ (McReturned /\ EdgesOf(adjacency_matrix) # {}) =>
          /\ DOMAIN mc_stc_values = Idx(Dim(adjacency_matrix))
          /\ \A i \in DOMAIN mc_stc_values :
                mc_stc_values[i][2] > 0 /\ RatLe(RatZero, mc_stc_values[i])
          /\ RatEq(RatSumTo(mc_stc_values, Dim(adjacency_matrix)), RatOne)
          /\ iteration = iterations
    /\ (pcMC = "sampling" /\ EdgesOf(adjacency_matrix) # {}) =>
          RatEq(RatSumTo(cumulative_importance, Dim(adjacency_matrix)),
                Rat(iteration, 1))

\* C12 witness: two different trees of the triangle averaged; node 0 was the
\* middle of one (1/2) and an end of the other (1/4).
C12_Witness ==
    /\ McReturned
    /\ adjacency_matrix = Unweighted(3, Pairs(3))
    /\ iterations = 2
    /\ RatEq(mc_stc_values[0], Rat(3, 8))

\* C12 witness for the edgeless case: a matrix whose only positive entry is
\* on the diagonal passes the np.sum test, is sampled, and still returns 0.
C12_WitnessNoEdges ==
    /\ McReturned
    /\ EdgesOf(adjacency_matrix) = {}
    /\ iteration > 0

\* C14: on a matrix that differs from its transpose both estimators fail
\* with an error and nothing else: no Laplacian, tree count, sample,
\* running sum or centrality value is ever computed or returned; and the
\* error is raised for no symmetric matrix.
C14_NotSymmetricRejected ==
    /\ ~IsSymmetric(adjacency_matrix) =>
          /\ pcExact \in {"ready", "ValueError"}
          /\ kirchhoff_matrix = <<>> /\ total_trees = 0 /\ stc_values = <<>>
          /\ pcMC \in {"ready", "ValueError"}
          /\ iteration = 0 /\ tree_matrix = <<>>
          /\ cumulative_importance = <<>> /\ mc_stc_values = <<>>
    /\ IsSymmetric(adjacency_matrix) =>
          pcExact # "ValueError" /\ pcMC # "ValueError"

\* C14 witness: both estimators have failed on a non-symmetric matrix.
C14_Witness ==
    /\ ~IsSymmetric(adjacency_matrix)
    /\ pcExact = "ValueError"
    /\ pcMC = "ValueError"

(***************************************************************************)
(* Claims about two estimators on one input, checked under SpecTwin.       *)
(***************************************************************************)
BothEstimated == \A e \in Estimators : twin_pc[e] = "done"

\* C13: two estimators constructed alike (the constructor has no seed
\* parameter, so alike means the same arguments) and run on the same graph
\* with the same iteration count return identical centrality maps.
C13_SeedDeterminism ==
    BothEstimated => twin_values[1] = twin_values[2]

\* What does hold: the map is a function of the generator's state, so two
\* estimators whose generators happened to start in the same state return
\* identical maps; and graphs with a single spanning tree give one map
\* whatever is drawn.
C13_SameGeneratorStateSameMap ==
    BothEstimated =>
        /\ twin_entropy[1] = twin_entropy[2] => twin_values[1] = twin_values[2]
        /\ Cardinality(SampledTrees(twin_cr)) = 1 => twin_values[1] = twin_values[2]

\* Both estimators have returned, with different maps.
C13_DifferentMaps ==
    BothEstimated /\ twin_values[1] # twin_values[2]

(***************************************************************************)
(* Claims about the coordination pair ranker, checked under SpecRank.      *)
(***************************************************************************)
Ranked == pcRank = "done"

\* the records of pairs for contributors (matrix indices) i and j
RecordsOf(i, j) ==
    { x \in 1 .. Len(pairs) :
        /\ pairs[x].contributor1_id = all_users[i + 1]
        /\ pairs[x].contributor2_id = all_users[j + 1] }

\* C15: exactly one record for each i < j with CR[i][j] > 0 and none for any
\* other pair; gap = CR - CA, impact = |gap| * CR; the status is exactly one
\* of missed (gap > 0.1), unnecessary (gap < -0.1), adequate, never both
\* flags; inter-class exactly when the two roles differ, a contributor
\* without a role counting as 'unclassified'.
C15_PairRecords ==
    Ranked =>
        /\ \A c \in Cells(Len(all_users)) :
              Cardinality(RecordsOf(c[1], c[2])) =
                 IF c[1] < c[2] /\ RatLt(RatZero, rank_cr[c]) THEN 1 ELSE 0
        /\ Len(pairs) =
              Cardinality({ c \in Pairs(Len(all_users)) : RatLt(RatZero, rank_cr[c]) })
        /\ \A c \in Pairs(Len(all_users)) : \A x \in RecordsOf(c[1], c[2]) :
              LET r == pairs[x]
                  gap == r.coordination_gap
                  role1 == IF all_users[c[1] + 1] \in DOMAIN role_mapping
                           THEN role_mapping[all_users[c[1] + 1]] ELSE "unclassified"
                  role2 == IF all_users[c[2] + 1] \in DOMAIN role_mapping
                           THEN role_mapping[all_users[c[2] + 1]] ELSE "unclassified"
              IN  /\ r.coordination_requirement = rank_cr[c]
                  /\ r.actual_coordination = rank_ca[c]
                  /\ RatEq(RatAdd(gap, rank_ca[c]), rank_cr[c])
                  /\ RatEq(r.impact_score,
                           IF gap[1] < 0 THEN RatMul(Rat(0 - gap[1], gap[2]), rank_cr[c])
                           ELSE RatMul(gap, rank_cr[c]))
                  /\ (get_coordination_status(r) = "missed") <=> (10 * gap[1] > gap[2])
                  /\ (get_coordination_status(r) = "unnecessary") <=> (10 * gap[1] < 0 - gap[2])
                  /\ (get_coordination_status(r) = "adequate") <=>
                        (10 * gap[1] <= gap[2] /\ 10 * gap[1] >= 0 - gap[2])
                  /\ ~(r.is_missed_coordination /\ r.is_unnecessary_coordination)
                  /\ r.is_inter_class <=> (role1 # role2)
                  /\ r.contributor1_role = role1 /\ r.contributor2_role = role2

\* C15 witness: one run with a missed pair, an adequate pair whose gap is
\* exactly 0.1 and which joins a contributor without a role to one
\* classified 'unclassified' (not inter-class), and a pair with no record.
C15_Witness ==
    /\ Ranked
    /\ Len(all_users) = 3
    /\ Len(pairs) = 2
    /\ \E x, y \in 1 .. Len(pairs) :
          /\ get_coordination_status(pairs[x]) = "missed"
          /\ get_coordination_status(pairs[y]) = "adequate"
          /\ RatEq(pairs[y].coordination_gap, Rat(1, 10))
          /\ ~pairs[y].is_inter_class
          /\ pairs[y].contributor1_id \notin DOMAIN role_mapping
          /\ pairs[y].contributor2_id \in DOMAIN role_mapping

\* position of a contributor in all_users (the matrix index)
IndexOf(user) == CHOOSE k \in Idx(Len(all_users)) : all_users[k + 1] = user

\* the record at x was discovered before the record at y (row-major, i < j)
DiscoveredBefore(x, y) ==
    LET i1 == IndexOf(pairs[x].contributor1_id)
        j1 == IndexOf(pairs[x].contributor2_id)
        i2 == IndexOf(pairs[y].contributor1_id)
        j2 == IndexOf(pairs[y].contributor2_id)
    IN  i1 < i2 \/ (i1 = i2 /\ j1 < j2)

\* C16: the returned list is sorted by impact, non-increasing; records of
\* equal impact keep their discovery order; the stored top pairs are exactly
\* the first TopPairs elements of the list, so no omitted pair has a larger
\* impact than an included one.
C16_SortedAndTopN ==
    Ranked =>
        /\ \A x, y \in 1 .. Len(pairs) :
              x < y =>
                 /\ RatLe(pairs[y].impact_score, pairs[x].impact_score)
                 /\ RatEq(pairs[y].impact_score, pairs[x].impact_score)
                       => DiscoveredBefore(x, y)
        /\ Len(top_coordination_pairs) =
              (IF Len(pairs) < TopPairs THEN Len(pairs) ELSE TopPairs)
        /\ \A x \in 1 .. Len(top_coordination_pairs) :
              top_coordination_pairs[x] = pairs[x]
        /\ \A x \in 1 .. Len(pairs) : \A y \in 1 .. Len(top_coordination_pairs) :
              x > Len(top_coordination_pairs) =>
                 RatLe(pairs[x].impact_score, top_coordination_pairs[y].impact_score)

\* C16 witness: more pairs than are stored, the cut falling between two
\* records of equal impact, below records of larger impact.
C16_Witness ==
    /\ Ranked
    /\ Len(pairs) > TopPairs
    /\ Len(top_coordination_pairs) = TopPairs
    /\ RatEq(pairs[TopPairs].impact_score, pairs[TopPairs + 1].impact_score)
    /\ RatLt(pairs[TopPairs].impact_score, pairs[1].impact_score)
    /\ RatLt(pairs[Len(pairs)].impact_score, pairs[TopPairs + 1].impact_score)

\* the orderings of n contributors compared: every one for the small
\* inputs, every exchange of two contributors for the large ones
Orderings(n) ==
    IF n <= RankUsers
    THEN { p \in [Idx(n) -> Idx(n)] : \A a, b \in Idx(n) : a # b => p[a] # p[b] }
    ELSE { [x \in Idx(n) |-> IF x = e[1] THEN e[2] ELSE IF x = e[2] THEN e[1] ELSE x] :
             e \in Pairs(n) }

\* the ranker's output for the contributors taken in the order p, the rows
\* and columns of CR and CA reordered alike
RankedInOrder(p) ==
    generate_coordination_pairs(
        [x \in 1 .. Len(all_users) |-> all_users[p[x - 1] + 1]],
        [c \in DOMAIN rank_cr |-> rank_cr[p[c[1]], p[c[2]]]],
        [c \in DOMAIN rank_ca |-> rank_ca[p[c[1]], p[c[2]]]],
        role_mapping)

\* what a list says about each unordered pair
PairFacts(list) ==
    { [ids |-> {list[x].contributor1_id, list[x].contributor2_id},
       cr |-> list[x].coordination_requirement,
       ca |-> list[x].actual_coordination,
       gap |-> list[x].coordination_gap,
       impact |-> list[x].impact_score,
       inter |-> list[x].is_inter_class,
       missed |-> list[x].is_missed_coordination,
       unnecessary |-> list[x].is_unnecessary_coordination] :
      x \in 1 .. Len(list) }

SameUpToOrder(a, b) == Len(a) = Len(b) /\ PairFacts(a) = PairFacts(b)

\* C17: the pair list is invariant under a reordering of the contributors
\* applied to the user list and to the rows and columns of CR and CA: the
\* same unordered pairs with the same values and flags, only the order of
\* the list may differ.
C17_PermutationInvariant ==
    Ranked =>
        \A p \in Orderings(Len(all_users)) : SameUpToOrder(RankedInOrder(p), pairs)

\* What does hold: the invariance for symmetric CR and CA.
C17_PermutationInvariantWhenSymmetric ==
    (Ranked /\ IsSymmetric(rank_cr) /\ IsSymmetric(rank_ca)) =>
        \A p \in Orderings(Len(all_users)) : SameUpToOrder(RankedInOrder(p), pairs)

\* A symmetric input whose list does change its order under a reordering
\* while keeping its pairs.
C17_ReorderedOnly ==
    /\ Ranked
    /\ IsSymmetric(rank_cr)
    /\ \E p \in Orderings(Len(all_users)) :
          RankedInOrder(p) # pairs /\ SameUpToOrder(RankedInOrder(p), pairs)

(***************************************************************************)
(* Claims about the matrix aligner, checked under SpecAlign.               *)
(***************************************************************************)
FileCountDifference == Abs(Cols(align_assignment) - Rows(align_dependency))

\* C18: the aligner succeeds exactly when the two file counts differ by at
\* most 5; on success assignment.cols = dependency.rows = dependency.cols,
\* the assignment keeps its row count and every entry at its position, and
\* every added cell is zero; otherwise it fails, the error naming both file
\* counts, and no matrix is returned.
C18_AlignerTolerance ==
    /\ pcAlign = "aligned" =>
          /\ FileCountDifference <= 5
          /\ align_error = <<>>
          /\ Cols(aligned[1]) = Rows(aligned[2])
          /\ Rows(aligned[2]) = Cols(aligned[2])
          /\ Rows(aligned[1]) = Rows(align_assignment)
          /\ DOMAIN aligned[1] = Idx(Rows(aligned[1])) \X Idx(Cols(aligned[1]))
          /\ DOMAIN aligned[2] = Idx(Rows(aligned[2])) \X Idx(Cols(aligned[2]))
          /\ \A x \in DOMAIN align_assignment :
                x \in DOMAIN aligned[1] /\ aligned[1][x] = align_assignment[x]
          /\ \A x \in DOMAIN aligned[1] \ DOMAIN align_assignment : aligned[1][x] = 0
          /\ \A x \in DOMAIN aligned[2] :
                aligned[2][x] = IF x \in DOMAIN align_dependency
                                THEN align_dependency[x] ELSE 0
    /\ pcAlign = "ValueError" =>
          /\ FileCountDifference >= 6
          /\ aligned = <<>>
          /\ align_error.assign_files = Cols(align_assignment)
          /\ align_error.dep_files = Rows(align_dependency)
    /\ (pcAlign = "ready" /\ FileCountDifference <= 5) =>
          ENABLED AlignMatrixDimensions /\ ~ENABLED AlignMatrixDimensions_TooDifferent
    /\ (pcAlign = "ready" /\ FileCountDifference >= 6) =>
          ENABLED AlignMatrixDimensions_TooDifferent /\ ~ENABLED AlignMatrixDimensions

\* C18 witness: a difference of exactly 5 accepted, the assignment padded
\* by five zero columns around an entry that stays where it was.
C18_Witness ==
    /\ pcAlign = "aligned"
    /\ FileCountDifference = 5
    /\ Cols(align_assignment) < Rows(align_dependency)
    /\ \E x \in DOMAIN align_assignment : align_assignment[x] > 0 /\ aligned[1][x] > 0

\* a difference of exactly 6 rejected
C18_WitnessRejected ==
    /\ pcAlign = "ValueError"
    /\ FileCountDifference = 6

(***************************************************************************)
(* Claims about the TNM matrix loader, checked under SpecConvert.          *)
(***************************************************************************)
Converted == pcConvert \in {"done", "ValueError"}

IsFlatList == matrix_data.kind = "list" /\ ~matrix_data.nested
                 /\ Len(matrix_data.values) > 0

IsSparseMap == matrix_data.kind = "dict"

HasPlainRow == \E r \in matrix_data.rows : r.value.kind # "dict"

\* C19: a flat list whose length is not a perfect square, and a sparse map
\* with a row that is not a nested mapping, are rejected with an error and
\* no matrix; a flat list of length k * k becomes the k x k matrix read
\* along the rows; a nested sparse map becomes the dense matrix holding
\* every supplied value at its (row, col) index and 0 elsewhere.
C19_LoaderFormats ==
    Converted =>
        /\ pcConvert = "ValueError" => dense_matrix = <<>> /\ convert_error # ""
        /\ pcConvert = "done" => convert_error = ""
        /\ IsFlatList =>
              LET n == Len(matrix_data.values) IN
              IF \E k \in 1 .. n : k * k = n
              THEN LET k == CHOOSE k \in 1 .. n : k * k = n
                   IN  /\ pcConvert = "done"
                       /\ DOMAIN dense_matrix = Cells(k)
                       /\ \A i, j \in Idx(k) :
                             dense_matrix[i, j] = matrix_data.values[i * k + j + 1]
              ELSE pcConvert = "ValueError"
        /\ (IsSparseMap /\ HasPlainRow) => pcConvert = "ValueError"
        /\ (IsSparseMap /\ ~HasPlainRow) =>
              /\ pcConvert = "done"
              /\ \A r \in matrix_data.rows : \A c \in r.value.cols :
                    /\ <<ParseInt(r.key), ParseInt(c.key)>> \in DOMAIN dense_matrix
                    /\ dense_matrix[ParseInt(r.key), ParseInt(c.key)] = c.value
              /\ \A x \in DOMAIN dense_matrix :
                    (~\E r \in matrix_data.rows : \E c \in r.value.cols :
                         x = <<ParseInt(r.key), ParseInt(c.key)>>)
                       => dense_matrix[x] = 0

\* C19 witness: a flat list of four values, not all equal across the
\* diagonal, reshaped to 2 x 2.
C19_Witness ==
    /\ pcConvert = "done"
    /\ IsFlatList
    /\ Len(matrix_data.values) = 4
    /\ matrix_data.values[2] # matrix_data.values[3]
    /\ dense_matrix[0, 1] = matrix_data.values[2]

\* a sparse map with the keys "2" and "10" densified: row 10, not row 2, is
\* the last one
C19_WitnessSparse ==
    /\ pcConvert = "done"
    /\ IsSparseMap
    /\ { r.key : r \in matrix_data.rows } = { <<2>>, <<1, 0>> }
    /\ \E c \in Idx(11) : dense_matrix[10, c] > 0

\* both rejections
C19_WitnessRejected ==
    /\ pcConvert = "ValueError"
    /\ \/ IsFlatList /\ Len(matrix_data.values) = 5
       \/ IsSparseMap /\ HasPlainRow

(***************************************************************************)
(* Claims about matrix loading, checked under SpecLoad.                    *)
(***************************************************************************)
\* every supplied (row, col, value) of json_data is in the dense matrix
AllEntriesPresent(json_data, matrix) ==
    \A r \in json_data : \A c \in r.value.cols :
        /\ <<ParseInt(r.key), ParseInt(c.key)>> \in DOMAIN matrix
        /\ matrix[ParseInt(r.key), ParseInt(c.key)] = c.value

\* C20: loading fails fast and never silently coerces: after a load that
\* did not fail, every supplied entry of both sparse maps is present in
\* the dense matrices; no entry outside the expected shape is dropped.
C20_LoadKeepsEveryEntry ==
    pcLoad = "loaded" =>
        /\ AllEntriesPresent(assignment_data, loaded[1])
        /\ AllEntriesPresent(dependency_data, loaded[2])

\* What does hold: the entries inside the counted shape are present, and a
\* load fails only on a row that is not a mapping.
C20_LoadKeepsEntriesInsideShape ==
    /\ pcLoad = "loaded" =>
          \A r \in assignment_data : \A c \in r.value.cols :
             LET x == <<ParseInt(r.key), ParseInt(c.key)>> IN
             x \in DOMAIN loaded[1] => loaded[1][x] = c.value
    /\ pcLoad = "STC_ANALYSIS_ERROR" =>
          /\ loaded = <<>>
          /\ HasPlainRowIn(assignment_data) \/ HasPlainRowIn(dependency_data)

\* A load that succeeded although the assignment of user "2" lies outside
\* the two rows counted.
C20_EntryDropped ==
    /\ pcLoad = "loaded"
    /\ { r.key : r \in assignment_data } = { <<0>>, <<2>> }
    /\ \E r \in assignment_data : r.key = <<2>> /\ r.value.cols # {}
    /\ \A x \in DOMAIN loaded[1] : x[1] < 2

\* The aligner, too, can drop supplied dependency entries: the columns beyond
\* the square are sliced off without an error.
C20_AlignerKeepsDependencyEntries ==
    pcAlign = "aligned" =>
        \A x \in DOMAIN align_dependency :
            align_dependency[x] > 0 => x \in DOMAIN aligned[2]

(***************************************************************************)
(* C26: the sampler on graphs that need not be connected.                  *)
(***************************************************************************)
\* the node sets of the connected components of the graph
Components(m) == { Reach(EdgesOf(m), {u}) : u \in Idx(Dim(m)) }

\* C26: for every symmetric non-negative graph, connected or not, and every
\* order in which the edges are drawn, the sampled matrix is a symmetric
\* subgraph of the input with the input's weights, it has the same
\* connected components as the input, and it has n - c edges for c
\* components (so it is acyclic); every input edge left out joins two nodes
\* the sampled edges already connect.
C26_SamplerReturnsSpanningForest ==
    Sampled =>
        /\ DOMAIN tree_matrix = DOMAIN adjacency_matrix
        /\ IsSymmetric(tree_matrix)
        /\ \A c \in DOMAIN tree_matrix :
              /\ tree_matrix[c] \in {0, adjacency_matrix[c]}
              /\ c[1] = c[2] => tree_matrix[c] = 0
        /\ Components(tree_matrix) = Components(adjacency_matrix)
        /\ Cardinality(EdgesOf(tree_matrix)) =
              Dim(adjacency_matrix) - Cardinality(Components(adjacency_matrix))
        /\ \A e \in EdgesOf(adjacency_matrix) \ EdgesOf(tree_matrix) :
              e[2] \in Reach(EdgesOf(tree_matrix) \ {e}, {e[1]})

\* C26 witness: a sample of a weighted triangle next to an isolated node,
\* two of the three edges accepted with a weight of 2 kept, the edge 0-1
\* rejected, node 3 left alone.
C26_Witness ==
    /\ Sampled
    /\ adjacency_matrix \in WeightedTriangles
    /\ ~IsConnected(adjacency_matrix)
    /\ tree_matrix[0, 1] = 0
    /\ tree_matrix[1, 2] = MaxTreeWeight
    /\ Cardinality(EdgesOf(tree_matrix)) = 2


(***************************************************************************)
(* C23, C24, C25: create, update and start requests on stored analyses.    *)
(***************************************************************************)
IterationsInRange(value) == MinIterations <= value /\ value <= MaxIterationsAllowed

\* what create requests alone guarantee: a row that is appended holds a
\* value within the limits, and a request answered 400 stores nothing
C23_CreateStoresInRange ==
    [][\A kind \in Kinds :
          /\ Len(stored_iterations'[kind]) > Len(stored_iterations[kind]) =>
                IterationsInRange(
                    stored_iterations'[kind][Len(stored_iterations'[kind])])
          /\ create_response' = "HTTP_400_BAD_REQUEST" =>
                stored_iterations' = stored_iterations]_vars

\* C23: after any sequence of create and update requests on STC and MC-STC
\* analyses, every stored record has monte_carlo_iterations between 100 and
\* 10000 inclusive.
C23_IterationsInRange ==
    \A kind \in Kinds : \A id \in 1 .. Len(stored_iterations[kind]) :
        IterationsInRange(stored_iterations[kind][id])

\* C24: an STC start_analysis on an analysis that is not yet completed and
\* whose TNM files are present and well-formed succeeds: the answer is 200
\* with the STC value and the results file name, and the record is completed
\* with results_file set and error_message cleared.
C24_StartSucceedsOnWellFormed ==
    stc_tnm_output = "well_formed" =>
        /\ stc_response.status = "HTTP_200_OK"
        /\ {"stc_value", "results_file"} \subseteq stc_response.data
        /\ stc_analyses[stc_response.analysis_id].is_completed
        /\ stc_analyses[stc_response.analysis_id].results_file # "None"
        /\ stc_analyses[stc_response.analysis_id].error_message = "None"

\* C25: start_analysis on an analysis that is already completed is answered
\* 400 ANALYSIS_ALREADY_COMPLETED with no data, no TNM file is read, and the
\* record with its results file reference is left exactly as it was.
C25_CompletedStartRejected ==
    [][\A id \in 1 .. NumStcAnalyses :
          stc_analyses[id].is_completed =>
             /\ stc_analyses'[id] = stc_analyses[id]
             /\ (stc_response' # stc_response /\ stc_response'.analysis_id = id) =>
                   /\ stc_response'.status = "HTTP_400_BAD_REQUEST"
                   /\ stc_response'.error_code = "ANALYSIS_ALREADY_COMPLETED"
                   /\ stc_response'.data = {}
                   /\ stc_tnm_output' = "not_read"]_vars

C25_Witness ==
    \E id \in 1 .. NumStcAnalyses :
        /\ stc_response = StcErrorResponse(id, "HTTP_400_BAD_REQUEST",
                                           "ANALYSIS_ALREADY_COMPLETED")
        /\ stc_analyses[id].is_completed
        /\ stc_analyses[id].results_file = "stc_results.json"
        /\ \E other \in 1 .. NumStcAnalyses :
              stc_analyses[other].error_message # "None"

\* the same for MC-STC: while the stored row is completed no request changes
\* it, no run is entered and no stored pair is removed
C25_McCompletedStartRejected ==
    [][(mc_analysis.is_completed /\ pcRun = "idle") =>
          /\ mc_analysis' = mc_analysis
          /\ pcRun' = "idle"
          /\ run_count' = run_count
          /\ pair_table \subseteq pair_table'
          /\ mc_response' # mc_response =>
                mc_response'.error_code = "ANALYSIS_ALREADY_COMPLETED"]_vars


(***************************************************************************)
(* C21, C22, C27, C28: the runs of one MC-STC analysis.                    *)
(***************************************************************************)
\* every run that answers failure leaves the stored row not completed
C21_FailedRunNotCompleted ==
    mc_response = McFailure => ~mc_analysis.is_completed

\* C21: after any MC-STC start_analysis run that ends in failure, a failure
\* while the coordination pairs are generated included, the saved record is
\* not completed and none of its score fields holds a value.
C21_FailedRunStoresNoScore ==
    mc_response = McFailure =>
        /\ ~mc_analysis.is_completed
        /\ ScoreFields(mc_analysis) = {Null}

\* the role classes that have at least one contributor
PopulatedClasses(roles) == { c \in Classes : UsersOf(roles, c) # {} }

\* the outcome "insufficient role data" of the run that answered last: the
\* run answers success, the message is stored and the row is not completed
InsufficientOutcome ==
    /\ mc_response.success
    /\ mc_response.run_status = "running"
    /\ mc_analysis.error_message = "Insufficient role data for MC-STC analysis"
    /\ ~mc_analysis.is_completed

\* the run that answered last read the roles and did not fail
RoleDecisionTaken == pcRun = "idle" /\ mc_response.success

\* fewer than two populated classes always end in the soft outcome
C22_FewerThanTwoClassesIsInsufficient ==
    (RoleDecisionTaken /\ Cardinality(PopulatedClasses(run_roles)) < 2) =>
        InsufficientOutcome

\* C22: a run ends with "insufficient role data" exactly when fewer than two
\* of the classes developer, security and ops are populated; with two or
\* more populated classes the score is computed and the row completed.
C22_InsufficientIffFewerThanTwoClasses ==
    RoleDecisionTaken =>
        /\ InsufficientOutcome <=> Cardinality(PopulatedClasses(run_roles)) < 2
        /\ Cardinality(PopulatedClasses(run_roles)) >= 2 =>
              (mc_analysis.is_completed /\ mc_analysis.mcstc_value # Null)

\* once the writer thread has stored its last batch the table holds every
\* computed pair
C27_PairsStoredOnceWriterDone ==
    (mc_analysis.is_completed /\ pair_queue = <<>>) =>
        pair_table = SeqToSet(computed_pairs)

\* C27: whenever the MC-STC analysis is observable as completed, the pair
\* table already holds every computed pair, and a results query answered 200
\* returns as many pairs as were computed (at most TopResults).
C27_CompletedImpliesPairsStored ==
    mc_analysis.is_completed =>
        /\ SeqToSet(computed_pairs) \subseteq pair_table
        /\ results_seen.status = "HTTP_200_OK" =>
              Cardinality(results_seen.pair_rows) =
                 (IF Len(computed_pairs) < TopResults
                  THEN Len(computed_pairs) ELSE TopResults)

\* C28: after any sequence of start_analysis runs, a failed run followed by
\* a successful rerun included, a completed analysis has an empty
\* error_message.
C28_CompletedHasNoError ==
    mc_analysis.is_completed => mc_analysis.error_message = "None"


(***************************************************************************)
(* C29: create_monitoring_analysis under concurrent requests.              *)
(***************************************************************************)
\* a request without force_rerun is rejected exactly when its validation
\* finds a pending or running row of its type, and a force rerun marks all
\* of them failed with 'Cancelled by force rerun' before it creates its row
C29_ValidationAndCancel ==
    [][\A r \in 1 .. MaxRequests :
          LET type == monitor_requests[r].analysis_type IN
          /\ (monitor_requests[r].pc = "unsent" /\ monitor_requests'[r].pc = "rejected")
                => (~monitor_requests[r].force_rerun /\ ActiveRows(monitoring, type) # {})
          /\ (monitor_requests[r].pc = "unsent" /\ monitor_requests'[r].pc = "validated"
                /\ ~monitor_requests[r].force_rerun)
                => ActiveRows(monitoring, type) = {}
          /\ (monitor_requests[r].pc = "validated" /\ monitor_requests'[r].pc = "cancelled")
                => /\ ActiveRows(monitoring', type) = {}
                   /\ \A k \in ActiveRows(monitoring, type) :
                         /\ monitoring'[k].status = "failed"
                         /\ monitoring'[k].error_message = "Cancelled by force rerun"]_vars

\* C29: after any sequence of create_monitoring_analysis requests, concurrent
\* ones included, at most one ProjectMonitoring row of a project and analysis
\* type is pending or running.
C29_AtMostOneActive ==
    \A type \in AnalysisTypes : Cardinality(ActiveRows(monitoring, type)) <= 1


(***************************************************************************)
(* C30: the life cycle of asynchronous contributor-analysis tasks.         *)
(***************************************************************************)
TerminalStatuses == {"completed", "failed"}

\* what a finished task holds
TaskFieldsConsistent(task) ==
    /\ task.status \in {"pending", "running"} \cup TerminalStatuses
    /\ task.status = "pending" => (task.started_at = "None" /\ task.progress = 0)
    /\ task.status \in {"pending", "running"} =>
          (task.completed_at = "None" /\ task.result = "None" /\ task.error = "None")
    /\ task.status = "completed" =>
          /\ task.progress = 100
          /\ task.result # "None"
          /\ task.completed_at # "None"
          /\ task.error = "None"
    /\ task.status = "failed" =>
          /\ task.error # "None"
          /\ task.completed_at # "None"
          /\ task.result = "None"

\* the status changes one step may make
TaskStepAllowed(before, after) ==
    \/ after.status = before.status /\ before.status \notin TerminalStatuses
    \/ after = before
    \/ before.status = "pending" /\ after.status = "running"
    \/ before.status = "running" /\ after.status \in TerminalStatuses

\* the worker thread of task t was started
WorkerStarted(t) == IF t <= Len(workers) THEN workers[t] # "none" ELSE FALSE

TaskFinished(t) ==
    IF t <= Len(tasks) THEN tasks[t].status \in TerminalStatuses ELSE FALSE

\* C30: every task registered by start_tnm_contributor_analysis_async goes
\* pending -> running -> (completed | failed), never backwards and never out
\* of a terminal status; a completed task has progress 100, its result and
\* completed_at set, a failed one its error message; and every task whose
\* worker thread was started eventually is completed or failed.
C30_TaskLifecycle ==
    /\ [](\A t \in 1 .. Len(tasks) : TaskFieldsConsistent(tasks[t]))
    /\ [][\A t \in 1 .. Len(tasks) : TaskStepAllowed(tasks[t], tasks'[t])]_vars
    /\ \A t \in 1 .. MaxTasks : WorkerStarted(t) ~> TaskFinished(t)

C30_Witness ==
    /\ Len(tasks) = MaxTasks
    /\ \E t \in 1 .. Len(tasks) :
          /\ tasks[t].status = "completed"
          /\ tasks[t].progress = 100
          /\ workers[t] = "returned"
    /\ \E t \in 1 .. Len(tasks) :
          /\ tasks[t].status = "failed"
          /\ tasks[t].error = "Project not found"
    /\ \E t \in 1 .. Len(tasks) :
          tasks[t].status = "pending" /\ workers[t] = "none"

====
